---- MODULE Spec2Model ----
(***************************************************************************)
(* Resume matching core: the persistent resume index (vector_store.py),    *)
(* the multi-signal scorer (scorer.py), the evidence segmenter             *)
(* (evidence_segmenter.py), the grounded three-stage pipeline              *)
(* (grounded_rag.py) and the request handlers of app.py that guard them.   *)
(*                                                                         *)
(* Each component has its own specification (SpecIndex, SpecQuery,         *)
(* SpecScore, SpecSeg, SpecSegTwice, SpecRag, SpecStage2, SpecRef,         *)
(* SpecApp, SpecFind, SpecFacts, SpecMeta); a specification leaves the     *)
(* variables of the other components at their initial value.               *)
(***************************************************************************)
EXTENDS Integers, Sequences, FiniteSets, TLC

VARIABLES
    \* ---- resume index (vector_store.py)
    store,      \* storage location -> set of records of the "resumes" collection
    inst,       \* ResumeIndex objects: NoInst or [persist_dir, loc, born]
    req,        \* in-flight calls of upsert_resume / query_similar
    lastCall,   \* history: per location and key, the last upsert applied
    \* ---- score_and_rank (scorer.py)
    sJd,        \* jd_info: [skills, years]
    sCands,     \* candidates, in input order
    sPc,        \* "idle", "start", "loop", "sort", "done", "raised"
    sI,         \* number of candidates the loop has gone through
    sResults,   \* results
    sErr,       \* the exception that left score_and_rank: [kind, at], NoErr when none
    \* ---- segment_jd / segment_resume (evidence_segmenter.py)
    gKind,      \* "jd" (segment_jd) or "resume" (segment_resume)
    gLines,     \* text.split('\n'): the lines, each a sequence of characters
    gI,         \* number of lines the loop has gone through
    gCur,       \* current_segment
    gSegs,      \* segments
    gId,        \* segment_id
    gPc,        \* "idle", "scan", "done"
    gCalls,     \* calls of segment_jd / segment_resume so far, this one included
    \* ---- grounded_rag_analysis (grounded_rag.py)
    rJd,        \* jd_text, as its lines
    rResume,    \* resume_text, as its lines
    rRefs,      \* reference_resumes: << >> for None or []
    rYear,      \* datetime.datetime.now().year during the run
    rPc,        \* "idle", "start", "stage1", "stage2", "stage3", "return", "done", "raised"
    rJdSegs,    \* jd_segments
    rResSegs,   \* resume_segments
    rFacts,     \* resume_facts
    rRefSegs,   \* reference_segments
    rReqs,      \* jd_requirements, a JSON value
    rWarn,      \* warnings
    rK,         \* requirements stage 2 has gone through
    rEval,      \* match_evaluation
    rStage3,    \* stage3_result, a JSON value
    rOut,       \* the returned dict
    rErr,       \* the exception that left grounded_rag_analysis
    rCalls,     \* the call_mistral calls so far: [stage, response]
    \* ---- request handlers (app.py)
    aCol,       \* the records of the collection of the module-level index
    aReq,       \* the request being handled, or the last one handled
    aPc,        \* "idle", "prologue", "body"
    aI,         \* /api/analyze: paths gone through
    aLog,       \* the calls made for aReq: "embed", "upsert", "query", "completion"
    aResp,      \* the response to aReq
    aBefore,    \* aCol when aReq arrived
    aN,         \* requests received
    \* ---- segment_reference_resumes (evidence_segmenter.py)
    fRefs,      \* reference_resumes: [text (its lines), similarity_score]
    fTopN,      \* top_n
    fIdx,       \* resumes of reference_resumes[:top_n] gone through
    fLine,      \* lines of the current resume gone through
    fSegs,      \* segments
    fId,        \* segment_id
    fPc,        \* "idle", "scan", "done"
    \* ---- find_candidate_segments (evidence_segmenter.py)
    cReq,       \* requirement
    cSegs,      \* segments, as the caller holds them
    cK,         \* top_k
    cOut,       \* the returned list
    cPc,        \* "idle", "call", "done"
    \* ---- extract_resume_facts (evidence_segmenter.py)
    xLines,     \* resume_text, as its lines
    xYear,      \* the year of the clock
    xRuns,      \* the runs on xLines so far: [year, facts]
    \* ---- metadata written and read back (app.py, import_resumes.py, index_resumes.py)
    wCol,       \* the records of the collection
    wLog,       \* the writes so far: [writer, id, fields, stored]
    wRead       \* the last read: NoOut, [id, fields] or [id, raised]

idxVars == <<store, inst, req, lastCall>>

scoreVars == <<sJd, sCands, sPc, sI, sResults, sErr>>

segVars == <<gKind, gLines, gI, gCur, gSegs, gId, gPc, gCalls>>

ragVars == <<rJd, rResume, rRefs, rYear, rPc, rJdSegs, rResSegs, rFacts, rRefSegs,
             rReqs, rWarn, rK, rEval, rStage3, rOut, rErr, rCalls>>

appVars == <<aCol, aReq, aPc, aI, aLog, aResp, aBefore, aN>>

refVars == <<fRefs, fTopN, fIdx, fLine, fSegs, fId, fPc>>

findVars == <<cReq, cSegs, cK, cOut, cPc>>

factsVars == <<xLines, xYear, xRuns>>

metaVars == <<wCol, wLog, wRead>>

helperVars == <<findVars, factsVars, metaVars>>

notIdx == <<scoreVars, segVars, ragVars, appVars, refVars, helperVars>>

notScore == <<idxVars, segVars, ragVars, appVars, refVars, helperVars>>

notSeg == <<idxVars, scoreVars, ragVars, appVars, refVars, helperVars>>

notRag == <<idxVars, scoreVars, segVars, appVars, refVars, helperVars>>

notApp == <<idxVars, scoreVars, segVars, ragVars, refVars, helperVars>>

notRef == <<idxVars, scoreVars, segVars, ragVars, appVars, helperVars>>

notFind == <<idxVars, scoreVars, segVars, ragVars, appVars, refVars, factsVars, metaVars>>

notFacts == <<idxVars, scoreVars, segVars, ragVars, appVars, refVars, findVars, metaVars>>

notMeta == <<idxVars, scoreVars, segVars, ragVars, appVars, refVars, findVars, factsVars>>

vars == <<idxVars, scoreVars, segVars, ragVars, appVars, refVars, helperVars>>

----------------------------------------------------------------------------
(* Generic helpers *)

Min(a, b) == IF a <= b THEN a ELSE b

Max(a, b) == IF a >= b THEN a ELSE b

Abs(a) == IF a < 0 THEN 0 - a ELSE a

Range(s) == {s[i] : i \in 1..Len(s)}

\* The permutation of 1..Len(ks) that list.sort(key=..., reverse=True) applies
\* to a list whose keys are ks: larger keys first, equal keys in their order
\* in the list (the sort is stable, also with reverse=True).
RECURSIVE InsertDesc(_, _, _)
InsertDesc(i, p, ks) ==
    IF p = << >> THEN <<i>>
    ELSE IF ks[i] > ks[p[Len(p)]]
         THEN Append(InsertDesc(i, SubSeq(p, 1, Len(p) - 1), ks), p[Len(p)])
         ELSE Append(p, i)

RECURSIVE OrderDescUpTo(_, _)
OrderDescUpTo(n, ks) ==
    IF n = 0 THEN << >> ELSE InsertDesc(n, OrderDescUpTo(n - 1, ks), ks)

OrderDesc(ks) == OrderDescUpTo(Len(ks), ks)

Permute(s, p) == [n \in 1..Len(p) |-> s[p[n]]]

NoErr == [kind |-> "", at |-> ""]

\* the other components, at rest
ScoreIdle ==
    /\ sJd = [skills |-> {}, years |-> 0]
    /\ sCands = << >>
    /\ sPc = "idle"
    /\ sI = 0
    /\ sResults = << >>
    /\ sErr = NoErr

SegIdle ==
    /\ gKind = "jd"
    /\ gLines = << >>
    /\ gI = 0
    /\ gCur = << >>
    /\ gSegs = << >>
    /\ gId = 1
    /\ gPc = "idle"
    /\ gCalls = 0

\* JSON values as json.loads returns them, tagged with their type
JNull == [t |-> "null", v |-> 0]
JNum(n) == [t |-> "num", v |-> n]
JStr(chars) == [t |-> "str", v |-> chars]
JList(items) == [t |-> "list", v |-> items]
JObj(fields) == [t |-> "obj", v |-> fields]
EmptyObj == JObj(<< >>)

NoOut == [none |-> TRUE]

RagIdle ==
    /\ rJd = << >> /\ rResume = << >> /\ rRefs = << >> /\ rYear = 0
    /\ rPc = "idle"
    /\ rJdSegs = << >> /\ rResSegs = << >> /\ rRefSegs = << >>
    /\ rFacts = NoOut
    /\ rReqs = JList(<< >>)
    /\ rWarn = << >>
    /\ rK = 0
    /\ rEval = << >>
    /\ rStage3 = EmptyObj
    /\ rOut = NoOut
    /\ rErr = NoErr
    /\ rCalls = << >>

NoRequest == [handler |-> "none"]
NoResp == [status |-> 0, error |-> "", count |-> 0]

AppIdle ==
    /\ aCol = {}
    /\ aReq = NoRequest
    /\ aPc = "idle"
    /\ aI = 0
    /\ aLog = << >>
    /\ aResp = NoResp
    /\ aBefore = {}
    /\ aN = 0

RefIdle ==
    /\ fRefs = << >>
    /\ fTopN = 0
    /\ fIdx = 0
    /\ fLine = 0
    /\ fSegs = << >>
    /\ fId = 1
    /\ fPc = "idle"

FindIdle ==
    /\ cReq = << >>
    /\ cSegs = << >>
    /\ cK = 0
    /\ cOut = << >>
    /\ cPc = "idle"

FactsIdle ==
    /\ xLines = << >>
    /\ xYear = 0
    /\ xRuns = << >>

MetaIdle ==
    /\ wCol = {}
    /\ wLog = << >>
    /\ wRead = NoOut

----------------------------------------------------------------------------
(* Resume index: vector_store.py *)

MaxInst == 2
MaxReq == 2

Dirs == {"chromaA", "chromaB"}
Keys == {"resume1.pdf", "resume2.pdf"}
QueryTexts == {<<"a", "b">>}

\* (text, metadata) of the upsert calls. Different writers build metadata with
\* different key sets (app.py upload_resume: filename, category, ...;
\* app.py analyze: filename, skills, ...)
Calls ==
    { [text |-> <<"a">>, metadata |-> [filename |-> "a.pdf", category |-> "uploaded"]],
      [text |-> <<"b", "b", "b", "b", "b">>, metadata |-> [filename |-> "b.pdf"]] }

NoInst == [persist_dir |-> "", loc |-> <<"none", "">>, born |-> 0]

\* os.path.abspath(persist_dir): the working directory is prefixed to a relative path
Abspath(persist_dir) == <<"/cwd", persist_dir>>

\* an in-memory client: every ResumeIndex object has a collection of its own
LocationEphemeral(i, dir) == <<"memory", i>>

\* chromadb.PersistentClient(path=self.persist_dir).get_or_create_collection("resumes"):
\* the collection lives under the directory, whichever object opens it
Location(i, dir) == <<"disk", dir>>

Locations ==
    {<<"disk", Abspath(d)>> : d \in Dirs} \cup {<<"memory", i>> : i \in 1..MaxInst}

\* hashlib.sha256(key).hexdigest(): distinct keys, distinct digests
HashId(key) == <<"sha256", key>>

\* SentenceTransformer.encode(normalize_embeddings=True): a point per text.
\* The embedding model is external; texts are sequences of characters and the
\* point of a text is its length, so texts that differ in their whitespace
\* have different points
Embed(text) == Len(text)

\* cosine distance of two embeddings
Distance(u, v) == Abs(u - v)

\* dict.update: the keys of new are set, the other keys of old stay
MergeMeta(old, new) ==
    [k \in DOMAIN old \cup DOMAIN new |-> IF k \in DOMAIN new THEN new[k] ELSE old[k]]

\* collection.add without a check of the id: a second record under the id
ColAddDuplicate(recs, id, document, metadata, embedding) ==
    recs \cup {[id |-> id, document |-> document, metadata |-> metadata, embedding |-> embedding]}

\* Collection.upsert(ids=[id], documents=[document], metadatas=[metadata],
\* embeddings=[embedding]) of the persistent client: an absent id is added; a
\* present id is updated in place: document and embedding are replaced, the
\* given metadata keys are written over the stored metadata (keys the call
\* does not give are kept).
ColUpsert(recs, id, document, metadata, embedding) ==
    LET old == {r \in recs : r.id = id}
        meta == IF old = {} THEN metadata
                ELSE MergeMeta((CHOOSE r \in old : TRUE).metadata, metadata)
    IN  (recs \ old) \cup
            {[id |-> id, document |-> document, metadata |-> meta, embedding |-> embedding]}

\* a query that returns the first top_k records farthest first
ColQueryFarthestFirst(recs, q, top_k) ==
    LET n == Cardinality(recs)
        ordered == CHOOSE s \in [1..n -> recs] :
            /\ Range(s) = recs
            /\ \A a, b \in 1..n :
                    a < b => Distance(q, s[a].embedding) >= Distance(q, s[b].embedding)
        hits == SubSeq(ordered, 1, Min(top_k, n))
    IN  [h \in 1..Len(hits) |->
            [id |-> hits[h].id, document |-> hits[h].document,
             metadata |-> hits[h].metadata,
             distance |-> Distance(q, hits[h].embedding)]]

\* Collection.query(query_embeddings=[q], n_results=top_k): the top_k records
\* nearest to q, nearest first
ColQuery(recs, q, top_k) ==
    LET n == Cardinality(recs)
        ordered == CHOOSE s \in [1..n -> recs] :
            /\ Range(s) = recs
            /\ \A a, b \in 1..n :
                    a < b => Distance(q, s[a].embedding) <= Distance(q, s[b].embedding)
        hits == SubSeq(ordered, 1, Min(top_k, n))
    IN  [h \in 1..Len(hits) |->
            [id |-> hits[h].id, document |-> hits[h].document,
             metadata |-> hits[h].metadata,
             distance |-> Distance(q, hits[h].embedding)]]

\* col.count()
ColCount(recs) == Cardinality(recs)

Idle == [op |-> "none", pc |-> "idle"]

NoCall == [text |-> << >>, metadata |-> [none |-> ""], id |-> <<"none", "">>]

IndexIdle ==
    /\ store = [l \in Locations |-> {}]
    /\ inst = [i \in 1..MaxInst |-> NoInst]
    /\ req = [r \in 1..MaxReq |-> Idle]
    /\ lastCall = [l \in Locations |-> [k \in Keys |-> NoCall]]

\* ResumeIndex.__init__(persist_dir): a new object (a process start)
NewResumeIndex(i, persist_dir) ==
    /\ inst[i] = NoInst
    /\ \A j \in 1..(i - 1) : inst[j] # NoInst
    /\ LET dir == Abspath(persist_dir)
           loc == Location(i, dir)
       IN  inst' = [inst EXCEPT ![i] =
                [persist_dir |-> dir, loc |-> loc,
                 born |-> 1 + Cardinality({k \in Keys : lastCall[loc][k] # NoCall})]]
    /\ UNCHANGED <<store, req, lastCall>>
    /\ UNCHANGED notIdx

\* the upsert calls of the same key on the same collection that are in flight
InFlight(loc, key) ==
    {q \in 1..MaxReq : /\ req[q].op = "upsert" /\ req[q].pc = "col"
                       /\ req[q].key = key /\ inst[req[q].inst].loc = loc}

\* upsert_resume is entered: rid and the embedding of the text are computed
\* (the arguments of col.upsert) before the collection is touched
UpsertCall(r, i, key, text, metadata) ==
    /\ req[r] = Idle
    /\ \A q \in 1..(r - 1) : req[q] # Idle
    /\ inst[i] # NoInst
    /\ req' = [req EXCEPT ![r] =
            [op |-> "upsert", pc |-> "col", inst |-> i, key |-> key, text |-> text,
             metadata |-> metadata, rid |-> HashId(key), embedding |-> Embed(text),
             overlaps |-> InFlight(inst[i].loc, key)]]
    /\ UNCHANGED <<store, inst, lastCall>>
    /\ UNCHANGED notIdx

\* self.col.upsert(...) and return rid
UpsertApply(r) ==
    /\ req[r].op = "upsert" /\ req[r].pc = "col"
    /\ LET c == req[r]
           loc == inst[c.inst].loc
       IN  /\ store' = [store EXCEPT ![loc] =
                    ColUpsert(@, c.rid, c.text, c.metadata, c.embedding)]
           /\ lastCall' = [lastCall EXCEPT ![loc][c.key] =
                    [text |-> c.text, metadata |-> c.metadata, id |-> c.rid]]
           /\ req' = [req EXCEPT ![r].pc = "done"]
    /\ UNCHANGED inst
    /\ UNCHANGED notIdx

\* query_similar is entered: the query text is embedded
QueryCall(r, i, jd_text, top_k) ==
    /\ req[r] = Idle
    /\ \A q \in 1..(r - 1) : req[q] # Idle
    /\ inst[i] # NoInst
    /\ req' = [req EXCEPT ![r] =
            [op |-> "query", pc |-> "col", inst |-> i, q |-> Embed(jd_text), top_k |-> top_k,
             embeds |-> 1]]
    /\ UNCHANGED <<store, inst, lastCall>>
    /\ UNCHANGED notIdx

\* return self.col.query(...)
QueryApply(r) ==
    /\ req[r].op = "query" /\ req[r].pc = "col"
    /\ LET c == req[r]
       IN  req' = [req EXCEPT ![r] =
                [op |-> "query", pc |-> "done", inst |-> c.inst, q |-> c.q, top_k |-> c.top_k,
                 embeds |-> c.embeds,
                 ret |-> ColQuery(store[inst[c.inst].loc], c.q, c.top_k)]]
    /\ UNCHANGED <<store, inst, lastCall>>
    /\ UNCHANGED notIdx

NextIndex ==
    \/ \E i \in 1..MaxInst, d \in Dirs : NewResumeIndex(i, d)
    \/ \E r \in 1..MaxReq, i \in 1..MaxInst, k \in Keys, c \in Calls :
            UpsertCall(r, i, k, c.text, c.metadata)
    \/ \E r \in 1..MaxReq : UpsertApply(r)
    \/ \E r \in 1..MaxReq, i \in 1..MaxInst, t \in QueryTexts, n \in 1..2 :
            QueryCall(r, i, t, n)
    \/ \E r \in 1..MaxReq : QueryApply(r)

InitIndex == IndexIdle /\ ScoreIdle /\ SegIdle /\ RagIdle /\ AppIdle /\ RefIdle /\ FindIdle /\ FactsIdle /\ MetaIdle

SpecIndex == InitIndex /\ [][NextIndex]_vars

(* query_similar on a collection that earlier upsert_resume calls have       *)
(* filled: the collection of the initial state is the result of a sequence    *)
(* of upserts, and queries and further upserts run on it.                     *)

MaxPreload == 2
MaxTopK == 3

QueryTextsNearFar == {<<"a", "b">>, <<"a", "b", "a", "b">>}

\* the sequences of (key, call) applied before the first state
PreloadCalls == UNION {[1..n -> Keys \X Calls] : n \in 0..MaxPreload}

RECURSIVE Preloaded(_)
Preloaded(calls) ==
    IF calls = << >> THEN {}
    ELSE LET c == calls[Len(calls)]
         IN  ColUpsert(Preloaded(SubSeq(calls, 1, Len(calls) - 1)), HashId(c[1]),
                       c[2].text, c[2].metadata, Embed(c[2].text))

\* the last of the calls with the key
LastOf(calls, key) ==
    LET at == {n \in 1..Len(calls) : calls[n][1] = key}
    IN  IF at = {} THEN NoCall
        ELSE LET c == calls[CHOOSE n \in at : \A m \in at : m <= n]
             IN  [text |-> c[2].text, metadata |-> c[2].metadata, id |-> HashId(c[1])]

InitQuery ==
    /\ ScoreIdle /\ SegIdle /\ RagIdle /\ AppIdle /\ RefIdle /\ FindIdle /\ FactsIdle /\ MetaIdle
    /\ \E calls \in PreloadCalls :
         LET dir == Abspath("chromaA")
             loc == Location(1, dir)
         IN  /\ store = [l \in Locations |-> IF l = loc THEN Preloaded(calls) ELSE {}]
             /\ lastCall = [l \in Locations |->
                    [k \in Keys |-> IF l = loc THEN LastOf(calls, k) ELSE NoCall]]
             /\ inst = [i \in 1..MaxInst |->
                    IF i = 1
                    THEN [persist_dir |-> dir, loc |-> loc,
                          born |-> 1 + Cardinality({k \in Keys : LastOf(calls, k) # NoCall})]
                    ELSE NoInst]
    /\ req = [r \in 1..MaxReq |-> Idle]

\* an upsert_resume that hands document and metadata to the collection
\* before the embedding is computed, and then fails
UpsertEmbedRaisesAfterWrite(r, i, key, text, metadata) ==
    /\ req[r] = Idle
    /\ \A q \in 1..(r - 1) : req[q] # Idle
    /\ inst[i] # NoInst
    /\ store' = [store EXCEPT ![inst[i].loc] = ColUpsert(@, HashId(key), text, metadata, 0)]
    /\ req' = [req EXCEPT ![r] =
            [op |-> "upsert", pc |-> "raised", inst |-> i, key |-> key, text |-> text,
             metadata |-> metadata, rid |-> HashId(key)]]
    /\ UNCHANGED <<inst, lastCall>>
    /\ UNCHANGED notIdx

\* upsert_resume when self._embed([text]) raises: the embedding is an
\* argument of self.col.upsert, so the exception leaves upsert_resume before
\* the collection is called
UpsertEmbedRaises(r, i, key, text, metadata) ==
    /\ req[r] = Idle
    /\ \A q \in 1..(r - 1) : req[q] # Idle
    /\ inst[i] # NoInst
    /\ req' = [req EXCEPT ![r] =
            [op |-> "upsert", pc |-> "raised", inst |-> i, key |-> key, text |-> text,
             metadata |-> metadata, rid |-> HashId(key)]]
    /\ UNCHANGED <<store, inst, lastCall>>
    /\ UNCHANGED notIdx

\* query_similar when self._embed([jd_text]) raises: no query is made and
\* nothing is returned
QueryEmbedRaises(r, i, jd_text, top_k) ==
    /\ req[r] = Idle
    /\ \A q \in 1..(r - 1) : req[q] # Idle
    /\ inst[i] # NoInst
    /\ req' = [req EXCEPT ![r] =
            [op |-> "query", pc |-> "raised", inst |-> i, jd_text |-> jd_text, top_k |-> top_k,
             embeds |-> 1]]
    /\ UNCHANGED <<store, inst, lastCall>>
    /\ UNCHANGED notIdx

NextQuery ==
    \/ \E r \in 1..MaxReq, k \in Keys, c \in Calls : UpsertCall(r, 1, k, c.text, c.metadata)
    \/ \E r \in 1..MaxReq, k \in Keys, c \in Calls : UpsertEmbedRaises(r, 1, k, c.text, c.metadata)
    \/ \E r \in 1..MaxReq : UpsertApply(r)
    \/ \E r \in 1..MaxReq, t \in QueryTextsNearFar, n \in 1..MaxTopK : QueryCall(r, 1, t, n)
    \/ \E r \in 1..MaxReq, t \in QueryTextsNearFar, n \in 1..MaxTopK : QueryEmbedRaises(r, 1, t, n)
    \/ \E r \in 1..MaxReq : QueryApply(r)

SpecQuery == InitQuery /\ [][NextQuery]_vars

C29_EmbedFailureLeavesIndex ==
    [][\A r \in 1..MaxReq :
          /\ (req[r] = Idle /\ req'[r] # Idle /\ req'[r].pc = "raised") =>
                /\ store' = store
                /\ "ret" \notin DOMAIN req'[r]
          /\ (req[r] # Idle /\ req[r].pc = "raised") => req'[r] = req[r]]_vars

\* an upsert with a new text for a key the collection holds has failed and
\* the record still has the text and the vector of the earlier call; a query
\* has failed on the collection, which holds records
C29_Witness_RecordKept ==
    \E r1, r2 \in 1..MaxReq :
        /\ req[r1].op = "upsert" /\ req[r1].pc = "raised"
        /\ req[r2].op = "query" /\ req[r2].pc = "raised"
        /\ \E rec \in store[inst[1].loc] :
              /\ rec.id = req[r1].rid
              /\ rec.document # req[r1].text
              /\ rec.document = lastCall[inst[1].loc][req[r1].key].text
              /\ rec.embedding = Embed(rec.document)

\* the record an upsert call hands to the collection
CompleteRecord(id, text, metadata) ==
    [id |-> id, document |-> text, metadata |-> metadata, embedding |-> Embed(text)]

UpsertedKeys(loc) == {k \in Keys : lastCall[loc][k] # NoCall}

\* C1: after any sequence of upsert_resume calls a collection holds exactly
\* one record per distinct key ever upserted; calls with the same key return
\* the same id; the record under that id has exactly the text and the
\* metadata of the last call with that key (no key of an earlier call's
\* metadata survives).
C1_UpsertReplacesWholeRecord ==
    /\ \A loc \in Locations :
        /\ ColCount(store[loc]) = Cardinality(UpsertedKeys(loc))
        /\ \A k \in UpsertedKeys(loc) :
            LET under == {r \in store[loc] : r.id = lastCall[loc][k].id}
            IN  /\ Cardinality(under) = 1
                /\ \A r \in under : /\ r.document = lastCall[loc][k].text
                                     /\ r.metadata = lastCall[loc][k].metadata
    /\ \A r1, r2 \in 1..MaxReq :
            (req[r1].op = "upsert" /\ req[r2].op = "upsert" /\ req[r1].key = req[r2].key)
                => req[r1].rid = req[r2].rid

C9_ConcurrentUpsertsNeverMix ==
    \A r1, r2 \in 1..MaxReq :
        (/\ r1 # r2
         /\ req[r1].op = "upsert" /\ req[r2].op = "upsert"
         /\ r1 \in req[r2].overlaps)
        => LET loc == inst[req[r1].inst].loc
               last == lastCall[loc][req[r1].key]
           IN  \A rec \in {x \in store[loc] : x.id = req[r1].rid} :
                /\ \E r \in {r1, r2} :
                        rec = CompleteRecord(req[r].rid, req[r].text, req[r].metadata)
                /\ (req[r1].pc = "done" /\ req[r2].pc = "done")
                        => rec = CompleteRecord(last.id, last.text, last.metadata)

----------------------------------------------------------------------------
(* Multi-signal scorer: scorer.py *)

MaxCands == 3

\* four equal weights
WeightsEqual == [vec |-> 25, kw |-> 25, title |-> 25, yrs |-> 25]

\* WEIGHTS, in hundredths
WEIGHTS == [vec |-> 55, kw |-> 25, title |-> 15, yrs |-> 5]

\* a quotient n/d as Python's / evaluates it: d = 0 raises ZeroDivisionError
DivZero == [num |-> 0, den |-> 0]

Quot(n, d) == IF d = 0 THEN DivZero ELSE [num |-> n, den |-> d]

\* round(x, 3) of x = n/d (d > 0), in thousandths: to the nearest, a tie to
\* the even thousandth (exact arithmetic stands for the float's)
RoundHalfEven(n, d) ==
    LET q == n \div d
        r == n % d
    IN  IF 2 * r < d THEN q
        ELSE IF 2 * r > d THEN q + 1
        ELSE IF q % 2 = 0 THEN q ELSE q + 1

\* the candidates score_and_rank is given: the similarity of a candidate's
\* text to the JD (cos, in hundredths) and the token_set_ratio of each of its
\* titles with the JD title (0..100) are what the external embedder and
\* rapidfuzz return for it
CandPool ==
    { [path |-> "a.pdf", skills |-> {"python"}, titles |-> <<70>>, years |-> 8, cos |-> 80],
      [path |-> "b.pdf", skills |-> {"python"}, titles |-> <<70>>, years |-> 8, cos |-> 80],
      [path |-> "c.pdf", skills |-> {}, titles |-> << >>, years |-> 0, cos |-> 30],
      [path |-> "d.pdf", skills |-> {"python", "aws"}, titles |-> <<40, 90>>, years |-> 3, cos |-> 75],
      [path |-> "e.pdf", skills |-> {"aws"}, titles |-> <<40>>, years |-> 3, cos |-> 0 - 10],
      [path |-> "f.pdf", skills |-> {"python", "aws"}, titles |-> <<100>>, years |-> 9, cos |-> 100] }

JdInfos ==
    { [skills |-> sk, years |-> y] : sk \in {{}, {"python"}, {"python", "aws"}}, y \in {0, 5} }

\* lists of at most MaxCands candidates, no candidate twice
CandLists ==
    UNION { {l \in [1..n -> CandPool] : \A a, b \in 1..n : a # b => l[a].path # l[b].path}
            : n \in 0..MaxCands }

\* S_yrs without the guard on jd_years
SyrsUnguarded(years, jd_years) == Quot(Min(years, jd_years), jd_years)

\* S_yrs = (min(years, jd_years)/jd_years) if jd_years else 0.0
Syrs(years, jd_years) ==
    IF jd_years # 0 THEN Quot(Min(years, jd_years), jd_years) ELSE Quot(0, 1)

\* S_kw = (len(jd_skills & skills) / max(1, len(jd_skills))) if jd_skills else 0.0
Skw(skills, jd_skills) ==
    IF jd_skills # {}
    THEN Quot(Cardinality(jd_skills \cap skills), Max(1, Cardinality(jd_skills)))
    ELSE Quot(0, 1)

\* S_title = max((fuzz.token_set_ratio(jd_title, t) for t in titles), default=0)/100.0
Stitle(titles) ==
    Quot(IF titles = << >> THEN 0
         ELSE CHOOSE m \in Range(titles) : \A t \in Range(titles) : t <= m, 100)

\* S_vec = cos(jd_vec, r_vec)
Svec(c) == Quot(c.cos, 100)

Signals(c, jd) ==
    [vec |-> Svec(c), kw |-> Skw(c.skills, jd.skills),
     title |-> Stitle(c.titles), yrs |-> Syrs(c.years, jd.years)]

\* round(final, 3), in thousandths, of the weighted sum of the signals: with
\* the weights in hundredths the sum is (n / 10) / (100 * d), so n / d
\* thousandths
Score(sig) ==
    LET d == sig.vec.den * sig.kw.den * sig.title.den * sig.yrs.den
        n == 10 * ( WEIGHTS.vec * sig.vec.num * (d \div sig.vec.den)
                  + WEIGHTS.kw * sig.kw.num * (d \div sig.kw.den)
                  + WEIGHTS.title * sig.title.num * (d \div sig.title.den)
                  + WEIGHTS.yrs * sig.yrs.num * (d \div sig.yrs.den) )
    IN  RoundHalfEven(n, d)

\* the reasons, the last three of them kept
WhyLastThree(c, jd, sig) ==
    LET all == (IF sig.vec.num * 10 > 7 * sig.vec.den THEN <<"semantic">> ELSE << >>)
            \o (IF jd.skills \cap c.skills # {} THEN <<"skills">> ELSE << >>)
            \o (IF sig.title.num * 10 > 6 * sig.title.den THEN <<"title">> ELSE << >>)
            \o (IF sig.yrs.num > 0 THEN <<"experience">> ELSE << >>)
    IN  SubSeq(all, Max(1, Len(all) - 2), Len(all))

\* the reasons, in the order the code appends them; why[:3]
Why(c, jd, sig) ==
    LET all == (IF sig.vec.num * 10 > 7 * sig.vec.den THEN <<"semantic">> ELSE << >>)
            \o (IF jd.skills \cap c.skills # {} THEN <<"skills">> ELSE << >>)
            \o (IF sig.title.num * 10 > 6 * sig.title.den THEN <<"title">> ELSE << >>)
            \o (IF sig.yrs.num > 0 THEN <<"experience">> ELSE << >>)
    IN  SubSeq(all, 1, Min(3, Len(all)))

\* results.sort(key=score) followed by results.reverse(): equal scores end
\* in the reverse of their input order
OrderBySortThenReverse(ks) ==
    LET asc == OrderDesc([n \in 1..Len(ks) |-> 0 - ks[n]])
    IN  [n \in 1..Len(asc) |-> asc[Len(asc) + 1 - n]]

\* results.sort(key=lambda x: x["score"], reverse=True)
SortOrder(ks) == OrderDesc(ks)

InitScore ==
    /\ IndexIdle /\ SegIdle /\ RagIdle /\ AppIdle /\ RefIdle /\ FindIdle /\ FactsIdle /\ MetaIdle
    /\ sJd \in JdInfos
    /\ sCands \in CandLists
    /\ sPc = "start"
    /\ sI = 0
    /\ sResults = << >>
    /\ sErr = NoErr

\* jd_vec = embed_one(jd_text); the jd_info fields are read
EmbedJd ==
    /\ sPc = "start"
    /\ sPc' = "loop"
    /\ UNCHANGED <<sJd, sCands, sI, sResults, sErr>>
    /\ UNCHANGED notScore

\* embed_one(jd_text) raises: the exception leaves score_and_rank
EmbedJdFails ==
    /\ sPc = "start"
    /\ sPc' = "raised"
    /\ sErr' = [kind |-> "EmbeddingFailure", at |-> "jd_text"]
    /\ UNCHANGED <<sJd, sCands, sI, sResults>>
    /\ UNCHANGED notScore

\* one turn of the loop: the candidate is embedded, its signals, score and
\* reasons are computed, its result is appended
ScoreCandidate ==
    /\ sPc = "loop" /\ sI < Len(sCands)
    /\ LET c == sCands[sI + 1]
           sig == Signals(c, sJd)
       IN  IF DivZero \in {sig.vec, sig.kw, sig.title, sig.yrs}
           THEN /\ sPc' = "raised"
                /\ sErr' = [kind |-> "ZeroDivisionError", at |-> c.path]
                /\ UNCHANGED <<sI, sResults>>
           ELSE /\ sResults' = Append(sResults,
                        [resume_id |-> c.path, score |-> Score(sig), why |-> Why(c, sJd, sig),
                         skills_found |-> sJd.skills \cap c.skills,
                         years_experience_est |-> c.years, sig |-> sig])
                /\ sI' = sI + 1
                /\ UNCHANGED <<sPc, sErr>>
    /\ UNCHANGED <<sJd, sCands>>
    /\ UNCHANGED notScore

\* embed_one(text) raises for the candidate of this turn: nothing in
\* score_and_rank catches it
CandidateEmbedFails ==
    /\ sPc = "loop" /\ sI < Len(sCands)
    /\ sPc' = "raised"
    /\ sErr' = [kind |-> "EmbeddingFailure", at |-> sCands[sI + 1].path]
    /\ UNCHANGED <<sJd, sCands, sI, sResults>>
    /\ UNCHANGED notScore

\* the loop is over: results.sort(...); return results
SortAndReturn ==
    /\ sPc = "loop" /\ sI = Len(sCands)
    /\ sResults' = Permute(sResults, SortOrder([n \in 1..Len(sResults) |-> sResults[n].score]))
    /\ sPc' = "done"
    /\ UNCHANGED <<sJd, sCands, sI, sErr>>
    /\ UNCHANGED notScore

NextScore ==
    \/ EmbedJd
    \/ EmbedJdFails
    \/ ScoreCandidate
    \/ CandidateEmbedFails
    \/ SortAndReturn

SpecScore == InitScore /\ [][NextScore]_vars

\* the place of a result's candidate in the input list
InputPos(res) == CHOOSE n \in 1..Len(sCands) : sCands[n].path = res.resume_id

\* C2: score_and_rank returns one result per candidate, the scores are
\* non-increasing, and results of equal score are in the order of their
\* candidates in the input list.
C2_RankedDescendingStable ==
    (sPc = "done" /\ sCands # << >>) =>
        /\ Len(sResults) = Len(sCands)
        /\ {sResults[n].resume_id : n \in 1..Len(sResults)} = {sCands[n].path : n \in 1..Len(sCands)}
        /\ \A a, b \in 1..Len(sResults) :
                a < b => /\ sResults[a].score >= sResults[b].score
                         /\ sResults[a].score = sResults[b].score
                                => InputPos(sResults[a]) < InputPos(sResults[b])

\* C2 witness: a returned ranking of three candidates, two of equal score
\* and one that the sort moved ahead of a candidate given before it
C2_Witness_TieAndReorder ==
    /\ sPc = "done" /\ Len(sResults) = 3
    /\ \E a, b \in 1..3 : a < b /\ sResults[a].score = sResults[b].score
    /\ \E a, b \in 1..3 : /\ a < b /\ sResults[a].score > sResults[b].score
                          /\ InputPos(sResults[a]) > InputPos(sResults[b])

\* C7: S_yrs is 0 whenever jd_years is 0, whatever the candidate's years, and
\* no division by zero leaves score_and_rank; when jd_years > 0, S_yrs is
\* min(years, jd_years)/jd_years and lies in [0, 1].
C7_YearsSignal ==
    /\ sErr.kind # "ZeroDivisionError"
    /\ \A n \in 1..Len(sResults) :
        LET y == sResults[n].sig.yrs
            c == sCands[InputPos(sResults[n])]
        IN  /\ y.den > 0
            /\ sJd.years = 0 => y.num = 0
            /\ sJd.years > 0 =>
                /\ y.num * sJd.years = Min(c.years, sJd.years) * y.den
                /\ 0 <= y.num /\ y.num <= y.den

\* C7 witness: a JD without required years and a scored candidate with 8 years
C7_Witness_ZeroJdYears ==
    /\ sPc = "done" /\ sJd.years = 0
    /\ \E n \in 1..Len(sResults) :
            sResults[n].years_experience_est > 0 /\ sResults[n].sig.yrs.num = 0

\* C10: when the embedding of one candidate fails, score_and_rank does not
\* abort: it still returns, the ranked list holds every other candidate and
\* not the failing one.
C10_CandidateFailureIsolated ==
    \A n \in 1..Len(sCands) :
        sErr = [kind |-> "EmbeddingFailure", at |-> sCands[n].path] =>
            /\ sPc # "raised"
            /\ sPc = "done" =>
                    {sResults[m].resume_id : m \in 1..Len(sResults)}
                        = {sCands[m].path : m \in 1..Len(sCands)} \ {sCands[n].path}

\* a signal n/d lies in [0, 1]
InUnit(x) == x.den > 0 /\ 0 <= x.num /\ x.num <= x.den

\* C17: the four weights are 0.55, 0.25, 0.15, 0.05 and sum to 1.0; the
\* score of every candidate is 0.55*Svec + 0.25*Skw + 0.15*Stitle + 0.05*Syrs
\* rounded to 3 decimals (within half a thousandth of the exact sum), with
\* Skw = |JDskills & Rskills| / max(1, |JDskills|) and 0 for an empty JD
\* skill set; whenever the four signals lie in [0, 1] so does the score.
C17_WeightedScore ==
    /\ WEIGHTS = [vec |-> 55, kw |-> 25, title |-> 15, yrs |-> 5]
    /\ WEIGHTS.vec + WEIGHTS.kw + WEIGHTS.title + WEIGHTS.yrs = 100
    /\ \A n \in 1..Len(sResults) :
        LET res == sResults[n]
            sig == res.sig
            c == sCands[InputPos(res)]
            d == sig.vec.den * sig.kw.den * sig.title.den * sig.yrs.den
            \* the exact weighted sum is sum / (100 * d), so 10 * sum / d thousandths
            sum == 55 * sig.vec.num * (d \div sig.vec.den)
                   + 25 * sig.kw.num * (d \div sig.kw.den)
                   + 15 * sig.title.num * (d \div sig.title.den)
                   + 5 * sig.yrs.num * (d \div sig.yrs.den)
        IN  /\ 2 * Abs(res.score * d - 10 * sum) <= d
            /\ sJd.skills = {} => sig.kw.num = 0
            /\ sJd.skills # {} =>
                    sig.kw.num * Max(1, Cardinality(sJd.skills))
                        = Cardinality(sJd.skills \cap c.skills) * sig.kw.den
            /\ (InUnit(sig.vec) /\ InUnit(sig.kw) /\ InUnit(sig.title) /\ InUnit(sig.yrs))
                    => (0 <= res.score /\ res.score <= 1000)

\* a returned ranking with a candidate whose four signals are 1 (score 1.0),
\* one whose exact sum 0.8275 is not a multiple of a thousandth, and one with
\* half of the JD skills
C17_Witness_RoundedAndFull ==
    /\ sPc = "done"
    /\ \E n \in 1..Len(sResults) : sResults[n].score = 1000
    /\ \E n \in 1..Len(sResults) :
            /\ sResults[n].score \in {827, 828}
            /\ sResults[n].sig.yrs = Quot(3, 5)
    /\ \E n \in 1..Len(sResults) : sResults[n].sig.kw = Quot(1, 2)

ReasonOrder == <<"semantic", "skills", "title", "experience">>

Rank(reason) == CHOOSE k \in 1..4 : ReasonOrder[k] = reason

\* the condition of a reason, on the signals and the skills found
Applies(reason, res) ==
    CASE reason = "semantic" -> res.sig.vec.num * 10 > 7 * res.sig.vec.den
      [] reason = "skills" -> res.skills_found # {}
      [] reason = "title" -> res.sig.title.num * 10 > 6 * res.sig.title.den
      [] reason = "experience" -> res.sig.yrs.num > 0

\* C18: the why list of every candidate has at most 3 reasons, each of them
\* applicable (semantic: Svec > 0.7, skills: non-empty skill overlap, title:
\* Stitle > 0.6, experience: Syrs > 0), in the order semantic, skills, title,
\* experience, and an applicable reason is left out only when three reasons
\* earlier in that order are in the list.
C18_WhyFirstThreeInOrder ==
    \A n \in 1..Len(sResults) :
        LET res == sResults[n]
            why == res.why
        IN  /\ Len(why) <= 3
            /\ \A k \in 1..Len(why) : why[k] \in Range(ReasonOrder) /\ Applies(why[k], res)
            /\ \A a, b \in 1..Len(why) : a < b => Rank(why[a]) < Rank(why[b])
            /\ \A reason \in Range(ReasonOrder) :
                    (Applies(reason, res) /\ reason \notin Range(why)) =>
                        /\ Len(why) = 3
                        /\ \A k \in 1..3 : Rank(why[k]) < Rank(reason)

\* a candidate with all four reasons applicable got the first three, and a
\* candidate with only skills and experience applicable got those two
C18_Witness_FourthReasonCut ==
    /\ sPc = "done"
    /\ \E n \in 1..Len(sResults) :
            /\ \A reason \in Range(ReasonOrder) : Applies(reason, sResults[n])
            /\ sResults[n].why = <<"semantic", "skills", "title">>
    /\ \E n \in 1..Len(sResults) : sResults[n].why = <<"skills", "experience">>

----------------------------------------------------------------------------
(* Segmenter: evidence_segmenter.py. A text is the list of its lines, a line  *)
(* the sequence of its characters; the bullet character U+2022 is the         *)
(* character "U+2022".                                                        *)

MaxLines == 4

MinJdLen == 20
MinResumeLen == 15
JdHeaderLen == 60
ResumeUpperLen == 40

Digits == {"0", "1", "2", "3", "4", "5", "6", "7", "8", "9"}
Lower == {"a", "b", "m", "e", "n", "p", "r", "s", "t"}
Upper == {"A", "B", "M", "P"}
Bullets == {"-", "U+2022", "*"}

Rep(ch, n) == [k \in 1..n |-> ch]

\* str.strip(): the whitespace at both ends is dropped
RECURSIVE LStrip(_)
LStrip(l) == IF l # << >> /\ l[1] = " " THEN LStrip(Tail(l)) ELSE l

RECURSIVE RStrip(_)
RStrip(l) == IF l # << >> /\ l[Len(l)] = " " THEN RStrip(SubSeq(l, 1, Len(l) - 1)) ELSE l

Strip(l) == RStrip(LStrip(l))

StartsWithBullet(l) == l # << >> /\ l[1] \in Bullets

\* re.match(r'^\d+[\.\)]', line)
MatchesNumber(l) ==
    \E k \in 1..Len(l) :
        /\ \A n \in 1..k : l[n] \in Digits
        /\ k < Len(l) /\ l[k + 1] \in {".", ")"}

\* str.isupper(): a cased character, and no lowercase one
IsUpper(l) == (\E n \in 1..Len(l) : l[n] \in Upper) /\ (\A n \in 1..Len(l) : l[n] \notin Lower)

EndsWithColon(l) == l # << >> /\ l[Len(l)] = ":"

\* re.match(r'^[A-Z][^.!?]+:$', line)
MatchesTitleColon(l) ==
    /\ Len(l) >= 3 /\ l[1] \in Upper /\ l[Len(l)] = ":"
    /\ \A n \in 2..(Len(l) - 1) : l[n] \notin {".", "!", "?"}

\* is_new_segment of segment_jd / segment_resume
IsNewSegment(kind, l) ==
    \/ StartsWithBullet(l)
    \/ MatchesNumber(l)
    \/ IF kind = "jd"
       THEN IsUpper(l) \/ (Len(l) < JdHeaderLen /\ EndsWithColon(l))
       ELSE (IsUpper(l) /\ Len(l) < ResumeUpperLen) \/ MatchesTitleColon(l)

\* re.sub(r'^[-U+2022\*\d\.\)]+\s*', '', line): a leading run of marker
\* characters and digits goes, with the whitespace after it
RECURSIVE DropMarkers(_)
DropMarkers(l) ==
    IF l # << >> /\ l[1] \in Bullets \cup Digits \cup {".", ")"} THEN DropMarkers(Tail(l)) ELSE l

CleanLine(l) == IF DropMarkers(l) = l THEN l ELSE LStrip(DropMarkers(l))

\* ' '.join(parts)
RECURSIVE Join(_)
Join(parts) ==
    IF parts = << >> THEN << >>
    ELSE IF Len(parts) = 1 THEN parts[1]
    ELSE parts[1] \o <<" ">> \o Join(Tail(parts))

MinLen(kind) == IF kind = "jd" THEN MinJdLen ELSE MinResumeLen

Prefix(kind) == IF kind = "jd" THEN "JD#" ELSE "R#"

\* the scan state: [cur, segs, id]

\* a flush that appends the segment and leaves segment_id as it is
FlushNoIncrement(kind, st) ==
    IF st.cur = << >> THEN st
    ELSE [cur |-> << >>, id |-> st.id,
          segs |-> IF Len(Join(st.cur)) > MinLen(kind)
                   THEN Append(st.segs, [id |-> <<Prefix(kind), st.id>>, text |-> Join(st.cur)])
                   ELSE st.segs]

\* a flush that keeps in current_segment the lines too short for a segment
FlushKeepShort(kind, st) ==
    IF st.cur = << >> THEN st
    ELSE LET text == Join(st.cur)
         IN  IF Len(text) > MinLen(kind)
             THEN [cur |-> << >>, id |-> st.id + 1,
                   segs |-> Append(st.segs, [id |-> <<Prefix(kind), st.id>>, text |-> text])]
             ELSE st

\* a flush that moves segment_id on also for a text it drops
FlushCountsDropped(kind, st) ==
    IF st.cur = << >> THEN st
    ELSE LET text == Join(st.cur)
         IN  [cur |-> << >>, id |-> st.id + 1,
              segs |-> IF Len(text) > MinLen(kind)
                       THEN Append(st.segs, [id |-> <<Prefix(kind), st.id>>, text |-> text])
                       ELSE st.segs]

\* if current_segment: the joined text becomes a segment when it is longer
\* than the minimum, segment_id moves on, current_segment is emptied
Flush(kind, st) ==
    IF st.cur = << >> THEN st
    ELSE LET text == Join(st.cur)
         IN  IF Len(text) > MinLen(kind)
             THEN [cur |-> << >>, id |-> st.id + 1,
                   segs |-> Append(st.segs, [id |-> <<Prefix(kind), st.id>>, text |-> text])]
             ELSE [cur |-> << >>, id |-> st.id, segs |-> st.segs]

\* one turn of the loop over the lines
ScanLine(kind, st, raw) ==
    LET line == Strip(raw)
    IN  IF line = << >> THEN Flush(kind, st)
        ELSE LET st1 == IF IsNewSegment(kind, line) /\ st.cur # << >> THEN Flush(kind, st) ELSE st
                 clean_line == CleanLine(line)
             IN  IF clean_line # << >> THEN [st1 EXCEPT !.cur = Append(@, clean_line)] ELSE st1

\* the lines the texts are made of
JdLinePool ==
    { << >>, <<" ">>,
      Rep("a", MinJdLen), Rep("a", MinJdLen + 1), Rep("b", MinJdLen \div 2),
      <<"1", "9", " ">> \o Rep("a", MinJdLen - 2),
      <<"-", " ">> \o Rep("a", MinJdLen + 1),
      <<"1", ".", " ">> \o Rep("b", MinJdLen + 1),
      Rep("A", MinJdLen \div 2),
      Rep("b", MinJdLen \div 2) \o <<":">> }

ResumeLinePool ==
    { << >>, <<" ">>,
      Rep("a", MinResumeLen), Rep("a", MinResumeLen + 1), Rep("b", MinResumeLen \div 2),
      <<"2", "0", " ">> \o Rep("a", MinResumeLen - 2),
      <<"*", " ">> \o Rep("a", MinResumeLen + 1),
      <<"2", ")", " ">> \o Rep("b", MinResumeLen + 1),
      Rep("A", MinResumeLen \div 2),
      <<"A">> \o Rep("b", MinResumeLen \div 2) \o <<":">> }

LinePool(kind) == IF kind = "jd" THEN JdLinePool ELSE ResumeLinePool

InitSeg ==
    /\ IndexIdle /\ ScoreIdle /\ RagIdle /\ AppIdle /\ RefIdle /\ FindIdle /\ FactsIdle /\ MetaIdle
    /\ gKind \in {"jd", "resume"}
    /\ gLines \in UNION {[1..n -> LinePool(gKind)] : n \in 1..MaxLines}
    /\ gI = 0
    /\ gCur = << >>
    /\ gSegs = << >>
    /\ gId = 1
    /\ gPc = "scan"
    /\ gCalls = 1

\* for line in lines: one line
SegScanLine ==
    /\ gPc = "scan" /\ gI < Len(gLines)
    /\ LET st == ScanLine(gKind, [cur |-> gCur, segs |-> gSegs, id |-> gId], gLines[gI + 1])
       IN  /\ gCur' = st.cur
           /\ gSegs' = st.segs
           /\ gId' = st.id
    /\ gI' = gI + 1
    /\ UNCHANGED <<gKind, gLines, gPc, gCalls>>
    /\ UNCHANGED notSeg

\* if current_segment after the loop: the final segment
FinalSegments(kind, st) == Flush(kind, st).segs

\* segment_jd(text) / segment_resume(text) as a function of the lines
RECURSIVE ScanFrom(_, _, _, _)
ScanFrom(kind, lines, n, st) ==
    IF n > Len(lines) THEN FinalSegments(kind, st)
    ELSE ScanFrom(kind, lines, n + 1, ScanLine(kind, st, lines[n]))

Segment(kind, lines) == ScanFrom(kind, lines, 1, [cur |-> << >>, segs |-> << >>, id |-> 1])

\* after the loop: the final segment, return segments
SegFinish ==
    /\ gPc = "scan" /\ gI = Len(gLines)
    /\ gSegs' = FinalSegments(gKind, [cur |-> gCur, segs |-> gSegs, id |-> gId])
    /\ gPc' = "done"
    /\ UNCHANGED <<gKind, gLines, gI, gCur, gId, gCalls>>
    /\ UNCHANGED notSeg

NextSeg ==
    \/ SegScanLine
    \/ SegFinish

SpecSeg == InitSeg /\ [][NextSeg]_vars

\* the paragraphs of a text: the maximal runs of lines that are not blank
\* (empty or whitespace only), each line stripped
RECURSIVE ParagraphsFrom(_, _, _)
ParagraphsFrom(lines, n, cur) ==
    IF n > Len(lines) THEN (IF cur = << >> THEN << >> ELSE <<cur>>)
    ELSE IF Strip(lines[n]) = << >>
         THEN (IF cur = << >> THEN << >> ELSE <<cur>>) \o ParagraphsFrom(lines, n + 1, << >>)
         ELSE ParagraphsFrom(lines, n + 1, Append(cur, Strip(lines[n])))

Paragraphs(lines) == ParagraphsFrom(lines, 1, << >>)

\* no line of the text is a bullet, a number or a heading line
Unstructured(kind, lines) ==
    \A n \in 1..Len(lines) : Strip(lines[n]) = << >> \/ ~IsNewSegment(kind, Strip(lines[n]))

\* a paragraph as written: its lines joined by single spaces
RawText(para) == Join(para)

\* a paragraph with the leading marker characters of its lines removed
RECURSIVE CleanParts(_)
CleanParts(para) ==
    IF para = << >> THEN << >>
    ELSE (IF CleanLine(para[1]) = << >> THEN << >> ELSE <<CleanLine(para[1])>>)
            \o CleanParts(Tail(para))

CleanText(para) == Join(CleanParts(para))

OneSegmentPerParagraph(paras) ==
    /\ Len(gSegs) = Len(paras)
    /\ \A n \in 1..Len(gSegs) :
            gSegs[n].id = <<"JD#", n>> /\ gSegs[n].text = CleanText(paras[n])

\* C4, threshold inclusive: a JD of blank-line-delimited unstructured
\* paragraphs of at least 20 characters each yields exactly one segment per
\* paragraph, in order, with ids JD#1, JD#2, ..., also for a paragraph of
\* exactly 20 characters.
C4_ParagraphsOfAtLeast20 ==
    (/\ gKind = "jd" /\ gPc = "done"
     /\ Unstructured("jd", gLines)
     /\ \A n \in 1..Len(Paragraphs(gLines)) : Len(RawText(Paragraphs(gLines)[n])) >= MinJdLen)
    => OneSegmentPerParagraph(Paragraphs(gLines))

\* the paragraphs whose text, markers removed, is longer than the minimum
LongParagraphs(paras) ==
    LET IsLong(para) == Len(CleanText(para)) > MinJdLen
    IN  SelectSeq(paras, IsLong)

\* C4, threshold exclusive: a JD of blank-line-delimited unstructured
\* paragraphs yields exactly one segment for each paragraph whose text (lines
\* stripped, the leading run of - U+2022 * . ) and digits of each line removed
\* with the whitespace after it, joined by single spaces) is longer than 20
\* characters, in order, with ids JD#1, JD#2, ...; a paragraph of 20
\* characters or fewer yields none.
C4_ParagraphsLongerThan20 ==
    (gKind = "jd" /\ gPc = "done" /\ Unstructured("jd", gLines))
        => OneSegmentPerParagraph(LongParagraphs(Paragraphs(gLines)))

\* C4 witness: a segmented JD of two unstructured paragraphs, each longer
\* than 20 characters
C4_Witness_TwoParagraphs ==
    /\ gKind = "jd" /\ gPc = "done"
    /\ Unstructured("jd", gLines)
    /\ Len(Paragraphs(gLines)) = 2
    /\ \A n \in 1..2 : Len(CleanText(Paragraphs(gLines)[n])) > MinJdLen
    /\ Len(gSegs) = 2

\* the lines i..j of the text, stripped
StrippedRun(lines, i, j) == [k \in 1..(j - i + 1) |-> Strip(lines[i + k - 1])]

\* the text is made of the lines i..j, none of them blank
FromRun(text, lines, i, j) ==
    /\ \A k \in i..j : Strip(lines[k]) # << >>
    /\ text = Join(CleanParts(StrippedRun(lines, i, j)))

\* the segment texts of each paragraph segmented on its own, in order
RECURSIVE TextsByParagraph(_, _)
TextsByParagraph(kind, paras) ==
    IF paras = << >> THEN << >>
    ELSE LET segs == Segment(kind, paras[1])
         IN  [k \in 1..Len(segs) |-> segs[k].text] \o TextsByParagraph(kind, Tail(paras))

\* C19: every segment segment_jd returns has a text longer than 20
\* characters and every segment segment_resume returns one longer than 15;
\* no segment holds text from both sides of a blank (or whitespace-only)
\* line: its text is made of consecutive non-blank lines; lines before a
\* blank line that are too short for a segment are dropped, not carried into
\* the next one, so the segments are those of the paragraphs taken one by one.
C19_LongEnoughWithinParagraph ==
    gPc = "done" =>
        /\ \A n \in 1..Len(gSegs) :
              /\ Len(gSegs[n].text) > (IF gKind = "jd" THEN 20 ELSE 15)
              /\ \E i \in 1..Len(gLines) : \E j \in i..Len(gLines) :
                    FromRun(gSegs[n].text, gLines, i, j)
        /\ [n \in 1..Len(gSegs) |-> gSegs[n].text] = TextsByParagraph(gKind, Paragraphs(gLines))

\* a segmented text whose first paragraph, too short, was dropped at the
\* blank line and whose second paragraph became the only segment
C19_Witness_ShortParagraphDropped ==
    /\ gPc = "done"
    /\ Len(Paragraphs(gLines)) = 2
    /\ Len(CleanText(Paragraphs(gLines)[1])) > 0
    /\ Len(CleanText(Paragraphs(gLines)[1])) <= MinLen(gKind)
    /\ Len(gSegs) = 1
    /\ gSegs[1].text = CleanText(Paragraphs(gLines)[2])

\* a heading line: ALL-CAPS, or short and ending in a colon
IsHeading(kind, l) ==
    IF kind = "jd" THEN IsUpper(l) \/ (Len(l) < 60 /\ EndsWithColon(l))
    ELSE (IsUpper(l) /\ Len(l) < 40) \/ MatchesTitleColon(l)

\* the list number at the start of a line: its digits and the . or ) after them
RECURSIVE NumberMarkerLen(_, _)
NumberMarkerLen(l, n) ==
    IF n <= Len(l) /\ l[n] \in Digits THEN NumberMarkerLen(l, n + 1) ELSE n

\* a line without its leading bullet or list number, and nothing else removed
WithoutMarker(l) ==
    IF StartsWithBullet(l) THEN LStrip(Tail(l))
    ELSE IF MatchesNumber(l) THEN LStrip(SubSeq(l, NumberMarkerLen(l, 1) + 1, Len(l)))
    ELSE l

\* the text a run of lines contributes: heading lines none, the other lines
\* their content
RECURSIVE ContentParts(_, _)
ContentParts(kind, run) ==
    IF run = << >> THEN << >>
    ELSE (IF IsHeading(kind, run[1]) \/ WithoutMarker(run[1]) = << >> THEN << >>
          ELSE <<WithoutMarker(run[1])>>) \o ContentParts(kind, Tail(run))

\* C26: the text of a segment is the space-joined content of consecutive
\* non-blank lines, each with only its leading bullet or list number
\* removed; a heading line (ALL-CAPS, or short and ending in a colon)
\* contributes no text; a line whose content begins with digits keeps them.
C26_TextIsContentOfLines ==
    gPc = "done" =>
        \A n \in 1..Len(gSegs) :
            \E i \in 1..Len(gLines) : \E j \in i..Len(gLines) :
                /\ \A k \in i..j : Strip(gLines[k]) # << >>
                /\ gSegs[n].text = Join(ContentParts(gKind, StrippedRun(gLines, i, j)))

----------------------------------------------------------------------------
(* Evidence helpers of evidence_segmenter.py used by the grounded pipeline.   *)
(* The texts of the model are written in the characters of Lower, Upper and   *)
(* Digits, the space and - * . ) : and the regular expressions are those of   *)
(* the source read on that alphabet: of the degree keywords B.S., B.E., M.S., *)
(* Master and MBA can be written, of the months Mar, Apr and Sep, of the      *)
(* range separators - and t, of the open ends Present.                        *)

RefMinLen == 40
MaxRefSegs == 20
PrefixLen == 20
PhraseBonus == 5
RawTextLen == 100

LowerOf(c) == CASE c = "A" -> "a" [] c = "B" -> "b" [] c = "M" -> "m" [] c = "P" -> "p" [] OTHER -> c

\* str.lower()
ToLower(l) == [k \in 1..Len(l) |-> LowerOf(l[k])]

\* q in t
IsSubstring(q, t) == \E k \in 0..(Len(t) - Len(q)) : SubSeq(t, k + 1, k + Len(q)) = q

\* a character of \w
IsWordChar(c) == c \in Lower \cup Upper \cup Digits \cup {"_"}

\* \b before position k / after position k of l
WordStart(l, k) == k = 1 \/ ~IsWordChar(l[k - 1])
WordEnd(l, k) == k = Len(l) \/ ~IsWordChar(l[k + 1])

\* set(re.findall(r'\b[a-z]{3,}\b', req_lower))
Keywords(req_lower) ==
    { SubSeq(req_lower, a, b) : <<a, b>> \in
        { ab \in (1..Len(req_lower)) \X (1..Len(req_lower)) :
            /\ ab[2] - ab[1] + 1 >= 3
            /\ WordStart(req_lower, ab[1]) /\ WordEnd(req_lower, ab[2])
            /\ \A k \in ab[1]..ab[2] : req_lower[k] \in Lower } }

\* matches of find_candidate_segments for one segment
MatchScore(requirement, seg) ==
    LET text_lower == ToLower(seg.text)
        kws == Keywords(ToLower(requirement))
    IN  Cardinality({kw \in kws : IsSubstring(kw, text_lower)})
          + (IF IsSubstring(ToLower(SubSeq(requirement, 1, Min(PrefixLen, Len(requirement)))), text_lower)
             THEN PhraseBonus ELSE 0)

RECURSIVE ScoredSegments(_, _)
ScoredSegments(requirement, segments) ==
    IF segments = << >> THEN << >>
    ELSE LET seg == Head(segments)
             m == MatchScore(requirement, seg)
         IN  (IF m > 0 THEN <<[id |-> seg.id, text |-> seg.text, match_score |-> m]>> ELSE << >>)
                \o ScoredSegments(requirement, Tail(segments))

\* the scored segments cut to top_k without the sort
FindCandidateSegmentsUnsorted(requirement, segments, top_k) ==
    LET scored == ScoredSegments(requirement, segments)
    IN  SubSeq(scored, 1, Min(top_k, Len(scored)))

\* find_candidate_segments(requirement, segments, top_k)
FindCandidateSegments(requirement, segments, top_k) ==
    LET scored == ScoredSegments(requirement, segments)
        sorted == Permute(scored, OrderDesc([k \in 1..Len(scored) |-> scored[k].match_score]))
    IN  SubSeq(sorted, 1, Min(top_k, Len(sorted)))

\* a reference line that becomes a segment
IsAchievementBullet(line) ==
    /\ StartsWithBullet(line) /\ Len(line) > RefMinLen
    /\ \E k \in 1..Len(line) : line[k] \in Digits

\* re.sub(r'^[-U+2022\*]+\s*', '', line)
RECURSIVE DropBullets(_)
DropBullets(l) == IF l # << >> /\ l[1] \in Bullets THEN DropBullets(Tail(l)) ELSE l

CleanBullet(l) == IF DropBullets(l) = l THEN l ELSE LStrip(DropBullets(l))

RECURSIVE RefLinesOf(_, _, _)
RefLinesOf(resume, idx, n) ==
    IF n > Len(resume.text) THEN << >>
    ELSE LET line == Strip(resume.text[n])
         IN  (IF IsAchievementBullet(line)
              THEN <<[text |-> CleanBullet(line), source_idx |-> idx - 1,
                      source_score |-> resume.similarity_score]>>
              ELSE << >>) \o RefLinesOf(resume, idx, n + 1)

RECURSIVE RefLinesFrom(_, _, _)
RefLinesFrom(reference_resumes, idx, top_n) ==
    IF idx > Min(top_n, Len(reference_resumes)) THEN << >>
    ELSE RefLinesOf(reference_resumes[idx], idx, 1) \o RefLinesFrom(reference_resumes, idx + 1, top_n)

\* segment_reference_resumes(reference_resumes, top_n): the achievement
\* bullets of the first top_n resumes, numbered, MaxRefSegs at most
SegmentReferenceResumes(reference_resumes, top_n) ==
    LET found == RefLinesFrom(reference_resumes, 1, top_n)
    IN  [k \in 1..Min(MaxRefSegs, Len(found)) |->
            [id |-> <<"REF#", k>>, text |-> found[k].text,
             source_idx |-> found[k].source_idx, source_score |-> found[k].source_score]]

DigitVal(c) ==
    CASE c = "0" -> 0 [] c = "1" -> 1 [] c = "2" -> 2 [] c = "3" -> 3 [] c = "4" -> 4
      [] c = "5" -> 5 [] c = "6" -> 6 [] c = "7" -> 7 [] c = "8" -> 8 [] c = "9" -> 9

FourDigitsAt(l, k) == k >= 1 /\ k + 3 <= Len(l) /\ \A d \in 0..3 : l[k + d] \in Digits

\* int() of the four digits at k
YearAt(l, k) == 1000 * DigitVal(l[k]) + 100 * DigitVal(l[k + 1]) + 10 * DigitVal(l[k + 2]) + DigitVal(l[k + 3])

\* \s*: the first position from k on that holds no space
RECURSIVE SkipSpaces(_, _)
SkipSpaces(l, k) == IF k <= Len(l) /\ l[k] = " " THEN SkipSpaces(l, k + 1) ELSE k

\* the n characters from position k on, lowercased; << >> when there are not n
LowerAt(l, k, n) == IF k >= 1 /\ k + n - 1 <= Len(l) THEN ToLower(SubSeq(l, k, k + n - 1)) ELSE << >>

\* [a-z]* with re.IGNORECASE: the first position from k on that holds no letter
RECURSIVE SkipLetters(_, _)
SkipLetters(l, k) == IF k <= Len(l) /\ l[k] \in Lower \cup Upper THEN SkipLetters(l, k + 1) ELSE k

Months == { <<"m", "a", "r">>, <<"a", "p", "r">>, <<"s", "e", "p">> }

Present == <<"p", "r", "e", "s", "e", "n", "t">>

\* [-to] and the dashes, case ignored
RangeSeparators == {"-", "t"}

\* (Jan|...|Dec)[a-z]*\s+(\d{4}) at position k: 0 when it does not match
\* there, else the position of the last digit
MonthYearAt(l, k) ==
    IF LowerAt(l, k, 3) \notin Months THEN 0
    ELSE LET p == SkipLetters(l, k + 3)
             q == SkipSpaces(l, p)
         IN  IF q > p /\ FourDigitsAt(l, q) THEN q + 3 ELSE 0

\* \s*[-to]\s*(Present|Current|...) from position k on, the last alternative
\* being a month and a year in the first pattern and a year in the second:
\* 0 when it does not match, else the position of the last character
RangeEndAt(pattern, l, k) ==
    LET q == SkipSpaces(l, k)
    IN  IF q > Len(l) \/ l[q] \notin RangeSeparators THEN 0
        ELSE LET r == SkipSpaces(l, q + 1)
             IN  IF LowerAt(l, r, 7) = Present THEN r + 6
                 ELSE IF pattern = 1 THEN MonthYearAt(l, r)
                 ELSE IF FourDigitsAt(l, r) THEN r + 3 ELSE 0

\* date_range_patterns[pattern - 1] at position k: 0 when it does not match
\* there, else the position of the last character of the match
RangeMatchAt(pattern, l, k) ==
    IF pattern = 1
    THEN (IF MonthYearAt(l, k) = 0 THEN 0 ELSE RangeEndAt(1, l, MonthYearAt(l, k) + 1))
    ELSE (IF FourDigitsAt(l, k) THEN RangeEndAt(2, l, k + 4) ELSE 0)

\* re.findall(r'(\d{4})', full_match): the years, left to right
RECURSIVE YearsFrom(_, _)
YearsFrom(l, k) ==
    IF k > Len(l) THEN << >>
    ELSE IF FourDigitsAt(l, k) THEN <<YearAt(l, k)>> \o YearsFrom(l, k + 4)
    ELSE YearsFrom(l, k + 1)

\* the experience_ranges entry of a match
RangeEntry(full_match, current_year) ==
    LET years == YearsFrom(full_match, 1)
        start_year == years[1]
        end_year == IF IsSubstring(Present, ToLower(full_match)) THEN current_year
                    ELSE IF Len(years) > 1 THEN years[Len(years)] ELSE current_year
    IN  [start |-> <<"str", start_year>>,
         end |-> IF end_year = current_year THEN <<"Present">> ELSE <<"str", end_year>>,
         duration_years |-> Max(0, end_year - start_year),
         raw_text |-> full_match]

\* the entries of one pattern on one line: re.finditer, left to right,
\* matches not overlapping
RECURSIVE RangesFrom(_, _, _, _)
RangesFrom(pattern, l, k, current_year) ==
    IF k > Len(l) THEN << >>
    ELSE LET end == RangeMatchAt(pattern, l, k)
         IN  IF end = 0 THEN RangesFrom(pattern, l, k + 1, current_year)
             ELSE <<RangeEntry(SubSeq(l, k, end), current_year)>>
                    \o RangesFrom(pattern, l, end + 1, current_year)

\* for pattern in date_range_patterns: the entries of a line, those of the
\* first pattern before those of the second
LineRanges(l, current_year) == RangesFrom(1, l, 1, current_year) \o RangesFrom(2, l, 1, current_year)

\* the degree keywords, lowercased, with and without their dots
DegreeWords ==
    { <<"b", "s">>, <<"b", ".", "s">>, <<"b", "s", ".">>, <<"b", ".", "s", ".">>,
      <<"b", "e">>, <<"b", ".", "e">>, <<"b", "e", ".">>, <<"b", ".", "e", ".">>,
      <<"m", "s">>, <<"m", ".", "s">>, <<"m", "s", ".">>, <<"m", ".", "s", ".">>,
      <<"m", "a", "s", "t", "e", "r">>, <<"m", "b", "a">> }

\* \b before position k: a word character on one side only
Boundary(l, k) == (k > 1 /\ IsWordChar(l[k - 1])) # (k <= Len(l) /\ IsWordChar(l[k]))

DegreeAt(l, k) == {w \in DegreeWords : LowerAt(l, k, Len(w)) = w}

\* re.search of the degree keywords between word boundaries, ignoring case
HasDegreeWord(l) ==
    \E k \in 1..Len(l) : \E w \in DegreeAt(l, k) : Boundary(l, k) /\ Boundary(l, k + Len(w))

\* degree_match.group(1): the leftmost occurrence, as written, its optional
\* dots taken when they are there
DegreeMatch(l) ==
    LET k == CHOOSE k \in 1..Len(l) :
                DegreeAt(l, k) # {} /\ \A j \in 1..(k - 1) : DegreeAt(l, j) = {}
        w == CHOOSE w \in DegreeAt(l, k) : \A v \in DegreeAt(l, k) : Len(v) <= Len(w)
    IN  SubSeq(l, k, k + Len(w) - 1)

RECURSIVE EducationFrom(_, _)
EducationFrom(lines, n) ==
    IF n > Len(lines) THEN << >>
    ELSE (IF HasDegreeWord(lines[n])
          THEN <<[degree |-> DegreeMatch(lines[n]), field |-> << >>, institution |-> << >>,
                  raw_text |-> SubSeq(Strip(lines[n]), 1, Min(RawTextLen, Len(Strip(lines[n]))))]>>
          ELSE << >>) \o EducationFrom(lines, n + 1)

RECURSIVE AllRangesFrom(_, _, _)
AllRangesFrom(lines, n, current_year) ==
    IF n > Len(lines) THEN << >>
    ELSE LineRanges(lines[n], current_year) \o AllRangesFrom(lines, n + 1, current_year)

RECURSIVE SumDurations(_)
SumDurations(ranges) ==
    IF ranges = << >> THEN 0 ELSE Head(ranges).duration_years + SumDurations(Tail(ranges))

\* extract_resume_facts(resume_text), current_year being datetime.now().year
ExtractResumeFacts(lines, current_year) ==
    LET ranges == AllRangesFrom(lines, 1, current_year)
    IN  [education |-> EducationFrom(lines, 1),
         total_years_experience |-> SumDurations(ranges),
         experience_ranges |-> ranges]

----------------------------------------------------------------------------
(* Grounded pipeline: grounded_rag.py. A completion-service response is       *)
(* [fence, body]: fence "none", "block" (a ``` line, the body, a closing      *)
(* ```) or "line" (``` and the body on one line); the body is JSON text for   *)
(* body.value or, with json FALSE, text that is not JSON. Confidences are in  *)
(* hundredths.                                                                *)

MaxReqs == 2

ShortJdLen == 400
FewBullets == 5
Stage2Cap == 15
Stage2TopK == 5
RagTopN == 3
NoCandidateConfidence == 30
DefaultConfidence == 50
PatternLimit == 5

WarnShort == "JD text seems short (< 400 chars)"
WarnFewBullets == "JD has few bullet points (< 5)"
WarnParse == "Failed to parse JD requirements"
WarnError == "Error extracting requirements"

JsonText(value) == [json |-> TRUE, value |-> value]
EmptyText == [json |-> FALSE, value |-> JStr(<< >>)]
GarbageText == [json |-> FALSE, value |-> JStr(<<"a", "a", "a">>)]

Plain(body) == [fence |-> "none", body |-> body]
Block(body) == [fence |-> "block", body |-> body]
OneLine(body) == [fence |-> "line", body |-> body]

\* response.strip(); the fence removal; json.loads(response)
ParseResponse(response) ==
    IF response.fence = "line" THEN [exc |-> "IndexError", value |-> JNull]
    ELSE IF ~response.body.json THEN [exc |-> "JSONDecodeError", value |-> JNull]
    ELSE [exc |-> "", value |-> response.body.value]

\* dict.get(key, default)
Get(obj, key, default) == IF key \in DOMAIN obj.v THEN obj.v[key] ELSE default

\* len(jd_text)
RECURSIVE TextLen(_)
TextLen(lines) ==
    IF lines = << >> THEN 0
    ELSE IF Len(lines) = 1 THEN Len(lines[1])
    ELSE Len(lines[1]) + 1 + TextLen(Tail(lines))

\* jd_text.count('\n-') + jd_text.count('\nU+2022') + jd_text.count('\n*')
BulletCount(lines) == Cardinality({n \in 2..Len(lines) : lines[n] # << >> /\ lines[n][1] \in Bullets})

InputWarnings(jd) ==
    (IF TextLen(jd) < ShortJdLen THEN <<WarnShort>> ELSE << >>)
        \o (IF BulletCount(jd) < FewBullets THEN <<WarnFewBullets>> ELSE << >>)

\* stage1_extract_jd_requirements, given the response of call_mistral
Stage1Result(jd, response) ==
    LET warnings == InputWarnings(jd)
        parsed == ParseResponse(response)
    IN  IF parsed.exc = "JSONDecodeError"
        THEN [jd_requirements |-> JList(<< >>), warnings |-> Append(warnings, WarnParse)]
        ELSE IF parsed.exc # "" \/ parsed.value.t # "obj"
        THEN [jd_requirements |-> JList(<< >>), warnings |-> Append(warnings, WarnError)]
        ELSE [jd_requirements |-> Get(parsed.value, "jd_requirements", JList(<< >>)),
              warnings |-> warnings]

\* the inputs of the runs
LineA(n) == Rep("a", n)

JdTexts ==
    { <<LineA(MinJdLen + 1)>>,
      <<LineA(MinJdLen \div 4)>>,
      <<LineA(MinJdLen + 1)>> \o [k \in 1..(FewBullets + 1) |-> <<"-", " ">> \o LineA(ShortJdLen \div 4)] }

ResumeTexts ==
    { << << >> >>,
      <<LineA(MinResumeLen + 1)>>,
      << <<"M", "B", "A", " ">> \o Rep("b", MinResumeLen), <<"2", "0", "1", "9", "-", "2", "0", "2", "3">> >> }

ReferenceLists ==
    { << >>,
      <<[text |-> <<Rep("b", RefMinLen)>>, similarity_score |-> 80]>>,
      <<[text |-> << <<"-", " ", "9", " ">> \o Rep("b", RefMinLen) >>, similarity_score |-> 90]>> }

CurrentYears == {2023, 2026}

Evidence(id, quote) == JObj([id |-> JStr(id), quote |-> JStr(quote)])

Requirement(text, evidence) ==
    JObj([requirement |-> JStr(text), type |-> "must", category |-> "skills",
          jd_evidence |-> JList(evidence)])

\* the entries a stage 1 response may carry: cited from a JD segment, citing
\* an id the JD has no segment for, citing a quote the segment does not
\* contain, and one without its requirement text
RequirementEntries(jd_segments) ==
    { Requirement(LineA(3), <<Evidence(<<"JD#", Len(jd_segments) + 1>>, LineA(3))>>),
      JObj([type |-> "must"]) }
    \cup (IF jd_segments = << >> THEN {}
          ELSE { Requirement(LineA(3), <<Evidence(jd_segments[1].id, SubSeq(jd_segments[1].text, 1, 3))>>),
                 Requirement(Rep("m", 3), <<Evidence(jd_segments[1].id, Rep("m", 3))>>) })

Stage1Responses(jd_segments) ==
    { Plain(EmptyText), Plain(GarbageText), Block(GarbageText),
      Plain(JsonText(JList(<< >>))), Plain(JsonText(EmptyObj)),
      Plain(JsonText(JObj([jd_requirements |-> JNull]))),
      OneLine(JsonText(JObj([jd_requirements |-> JList(<< >>)]))) }
    \cup { Plain(JsonText(JObj([jd_requirements |-> JList(entries)]))) :
             entries \in UNION {[1..n -> RequirementEntries(jd_segments)] : n \in 0..MaxReqs} }
    \cup { Block(JsonText(JObj([jd_requirements |-> JList(<<entry>>)]))) :
             entry \in RequirementEntries(jd_segments) }

Stage2Responses(candidates) ==
    { Plain(EmptyText),
      Plain(JsonText(JList(<< >>))),
      Plain(JsonText(EmptyObj)),
      Plain(JsonText(JObj([status |-> JStr("met"), confidence |-> JNum(90),
                           resume_evidence |-> JList(<<Evidence(candidates[1].id, SubSeq(candidates[1].text, 1, 3))>>),
                           notes |-> JStr("quoted")]))),
      Plain(JsonText(JObj([status |-> JStr("partial"), confidence |-> JStr("high")]))) }

Stage3Responses(reference_segments) ==
    { Plain(GarbageText),
      Plain(JsonText(JList(<< >>))),
      Plain(JsonText(EmptyObj)),
      Block(JsonText(JObj([common_patterns_in_top_matches |->
          JList(<<JObj([pattern |-> JStr("metrics"),
                        reference_evidence |-> JList(<<Evidence(reference_segments[1].id,
                                                                 SubSeq(reference_segments[1].text, 1, 3))>>)])>>)]))),
      Plain(JsonText(JObj([common_patterns_in_top_matches |->
          JList([k \in 1..(PatternLimit + 1) |->
                    JObj([pattern |-> JStr("metrics"), reference_evidence |-> JList(<< >>)])])]))) }

InitRag ==
    /\ IndexIdle /\ ScoreIdle /\ SegIdle /\ AppIdle /\ RefIdle /\ FindIdle /\ FactsIdle /\ MetaIdle
    /\ rJd \in JdTexts
    /\ rResume \in ResumeTexts
    /\ rRefs \in ReferenceLists
    /\ rYear \in CurrentYears
    /\ rPc = "start"
    /\ rJdSegs = << >> /\ rResSegs = << >> /\ rRefSegs = << >>
    /\ rFacts = NoOut
    /\ rReqs = JList(<< >>)
    /\ rWarn = << >>
    /\ rK = 0
    /\ rEval = << >>
    /\ rStage3 = EmptyObj
    /\ rOut = NoOut
    /\ rErr = NoErr
    /\ rCalls = << >>

\* Step 0: segment everything
RagSegment ==
    /\ rPc = "start"
    /\ rJdSegs' = Segment("jd", rJd)
    /\ rResSegs' = Segment("resume", rResume)
    /\ rFacts' = ExtractResumeFacts(rResume, rYear)
    /\ rRefSegs' = IF rRefs # << >> THEN SegmentReferenceResumes(rRefs, RagTopN) ELSE << >>
    /\ rPc' = "stage1"
    /\ UNCHANGED <<rJd, rResume, rRefs, rYear, rReqs, rWarn, rK, rEval, rStage3, rOut, rErr, rCalls>>
    /\ UNCHANGED notRag

\* Stage 1: one completion call; jd_requirements and warnings of its result
RagStage1 ==
    /\ rPc = "stage1"
    /\ \E response \in Stage1Responses(rJdSegs) :
         LET stage1_result == Stage1Result(rJd, response)
         IN  /\ rReqs' = stage1_result.jd_requirements
             /\ rWarn' = stage1_result.warnings
             /\ rCalls' = Append(rCalls, [stage |-> 1, response |-> response])
    /\ rPc' = "stage2"
    /\ UNCHANGED <<rJd, rResume, rRefs, rYear, rJdSegs, rResSegs, rFacts, rRefSegs, rK, rEval,
                   rStage3, rOut, rErr>>
    /\ UNCHANGED notRag

\* jd_requirements[:15] can be taken
Sliceable(reqs) == reqs.t \in {"list", "str"}

\* a loop over jd_requirements, not cut
Stage2CountUncapped(reqs) == Len(reqs.v)

\* the requirements the loop goes through: len(jd_requirements[:15])
Stage2Count(reqs) == Min(Stage2Cap, Len(reqs.v))

\* req['requirement'] is there and is text
WellFormed(reqs, k) ==
    /\ reqs.t = "list" /\ reqs.v[k].t = "obj"
    /\ "requirement" \in DOMAIN reqs.v[k].v
    /\ reqs.v[k].v["requirement"].t = "str"

RequirementText(reqs, k) == reqs.v[k].v["requirement"].v

Candidates(reqs, k) == FindCandidateSegments(RequirementText(reqs, k), rResSegs, Stage2TopK)

ErrorEntry(requirement, notes) ==
    [requirement |-> requirement.v["requirement"].v, status |-> JStr("missing"),
     confidence |-> NoCandidateConfidence, jd_evidence |-> Get(requirement, "jd_evidence", JList(<< >>)),
     resume_evidence |-> JList(<< >>), notes |-> JStr(notes)]

\* the entry stage 2 appends for a requirement, given the response
EvaluationEntry(requirement, response) ==
    LET parsed == ParseResponse(response)
        eval_result == parsed.value
    IN  IF parsed.exc # "" \/ eval_result.t # "obj" THEN ErrorEntry(requirement, "Evaluation error")
        ELSE IF Get(eval_result, "confidence", JNum(DefaultConfidence)).t # "num"
        THEN ErrorEntry(requirement, "Evaluation error")
        ELSE [requirement |-> requirement.v["requirement"].v,
              status |-> Get(eval_result, "status", JStr("missing")),
              confidence |-> Get(eval_result, "confidence", JNum(DefaultConfidence)).v,
              jd_evidence |-> Get(requirement, "jd_evidence", JList(<< >>)),
              resume_evidence |-> Get(eval_result, "resume_evidence", JList(<< >>)),
              notes |-> Get(eval_result, "notes", JStr(""))]

\* a stage 2 that asks the completion service also when no segment was found
RagStage2NoCandidatesCalls ==
    /\ rPc = "stage2" /\ Sliceable(rReqs) /\ rK < Stage2Count(rReqs)
    /\ WellFormed(rReqs, rK + 1)
    /\ Candidates(rReqs, rK + 1) = << >>
    /\ rEval' = Append(rEval, ErrorEntry(rReqs.v[rK + 1], "No relevant resume segments found for this requirement"))
    /\ rCalls' = Append(rCalls, [stage |-> 2, response |-> Plain(EmptyText)])
    /\ rK' = rK + 1
    /\ UNCHANGED <<rJd, rResume, rRefs, rYear, rPc, rJdSegs, rResSegs, rFacts, rRefSegs, rReqs,
                   rWarn, rStage3, rOut, rErr>>
    /\ UNCHANGED notRag

\* Stage 2, a requirement with no candidate segment: missing, no call
RagStage2NoCandidates ==
    /\ rPc = "stage2" /\ Sliceable(rReqs) /\ rK < Stage2Count(rReqs)
    /\ WellFormed(rReqs, rK + 1)
    /\ Candidates(rReqs, rK + 1) = << >>
    /\ rEval' = Append(rEval, ErrorEntry(rReqs.v[rK + 1], "No relevant resume segments found for this requirement"))
    /\ rK' = rK + 1
    /\ UNCHANGED <<rJd, rResume, rRefs, rYear, rPc, rJdSegs, rResSegs, rFacts, rRefSegs, rReqs,
                   rWarn, rStage3, rOut, rErr, rCalls>>
    /\ UNCHANGED notRag

\* Stage 2, a requirement with candidates: one completion call
RagStage2Evaluate ==
    /\ rPc = "stage2" /\ Sliceable(rReqs) /\ rK < Stage2Count(rReqs)
    /\ WellFormed(rReqs, rK + 1)
    /\ Candidates(rReqs, rK + 1) # << >>
    /\ \E response \in Stage2Responses(Candidates(rReqs, rK + 1)) :
         /\ rEval' = Append(rEval, EvaluationEntry(rReqs.v[rK + 1], response))
         /\ rCalls' = Append(rCalls, [stage |-> 2, response |-> response])
    /\ rK' = rK + 1
    /\ UNCHANGED <<rJd, rResume, rRefs, rYear, rPc, rJdSegs, rResSegs, rFacts, rRefSegs, rReqs,
                   rWarn, rStage3, rOut, rErr>>
    /\ UNCHANGED notRag

\* the exception of lines 123-127: None[:15] and req['requirement'] on a
\* value that is no dict are TypeError, a dict without the key is KeyError, a
\* requirement without .lower() is AttributeError
Stage2ErrorKind(reqs, k) ==
    IF reqs.t # "list" THEN "TypeError"
    ELSE IF reqs.v[k].t # "obj" THEN "TypeError"
    ELSE IF "requirement" \notin DOMAIN reqs.v[k].v THEN "KeyError"
    ELSE "AttributeError"

\* Stage 2 outside its try: jd_requirements that cannot be sliced, an entry
\* that is no dict or has no 'requirement', a requirement that is no text
RagStage2Raises ==
    /\ rPc = "stage2"
    /\ \/ ~Sliceable(rReqs)
       \/ Sliceable(rReqs) /\ rK < Stage2Count(rReqs) /\ ~WellFormed(rReqs, rK + 1)
    /\ rErr' = [kind |-> Stage2ErrorKind(rReqs, rK + 1), at |-> "stage2_evaluate_match"]
    /\ rPc' = "raised"
    /\ UNCHANGED <<rJd, rResume, rRefs, rYear, rJdSegs, rResSegs, rFacts, rRefSegs, rReqs,
                   rWarn, rK, rEval, rStage3, rOut, rCalls>>
    /\ UNCHANGED notRag

\* Stage 2 returns match_evaluation
RagStage2Return ==
    /\ rPc = "stage2" /\ Sliceable(rReqs) /\ rK = Stage2Count(rReqs)
    /\ rPc' = "stage3"
    /\ UNCHANGED <<rJd, rResume, rRefs, rYear, rJdSegs, rResSegs, rFacts, rRefSegs, rReqs,
                   rWarn, rK, rEval, rStage3, rOut, rErr, rCalls>>
    /\ UNCHANGED notRag

\* no reference segments: stage3_result = {}
RagStage3Skip ==
    /\ rPc = "stage3" /\ rRefSegs = << >>
    /\ rStage3' = EmptyObj
    /\ rPc' = "return"
    /\ UNCHANGED <<rJd, rResume, rRefs, rYear, rJdSegs, rResSegs, rFacts, rRefSegs, rReqs,
                   rWarn, rK, rEval, rOut, rErr, rCalls>>
    /\ UNCHANGED notRag

\* stage3_common_patterns, given the response of call_mistral
Stage3Result(response) ==
    IF ParseResponse(response).exc # "" THEN JObj([common_patterns_in_top_matches |-> JList(<< >>)])
    ELSE ParseResponse(response).value

\* Stage 3: one completion call
RagStage3 ==
    /\ rPc = "stage3" /\ rRefSegs # << >>
    /\ \E response \in Stage3Responses(rRefSegs) :
         /\ rStage3' = Stage3Result(response)
         /\ rCalls' = Append(rCalls, [stage |-> 3, response |-> response])
    /\ rPc' = "return"
    /\ UNCHANGED <<rJd, rResume, rRefs, rYear, rJdSegs, rResSegs, rFacts, rRefSegs, rReqs,
                   rWarn, rK, rEval, rOut, rErr>>
    /\ UNCHANGED notRag

\* Combine results
RagReturn ==
    /\ rPc = "return" /\ rStage3.t = "obj"
    /\ rOut' = [jd_requirements |-> rReqs,
                match_evaluation |-> rEval,
                common_patterns_in_top_matches |-> Get(rStage3, "common_patterns_in_top_matches", JList(<< >>)),
                warnings |-> rWarn,
                resume_facts |-> rFacts,
                meta |-> [jd_segments_count |-> Len(rJdSegs),
                          resume_segments_count |-> Len(rResSegs),
                          reference_segments_count |-> Len(rRefSegs)]]
    /\ rPc' = "done"
    /\ UNCHANGED <<rJd, rResume, rRefs, rYear, rJdSegs, rResSegs, rFacts, rRefSegs, rReqs,
                   rWarn, rK, rEval, rStage3, rErr, rCalls>>
    /\ UNCHANGED notRag

\* stage3_result.get on a result that is no dict
RagReturnRaises ==
    /\ rPc = "return" /\ rStage3.t # "obj"
    /\ rErr' = [kind |-> "AttributeError", at |-> "stage3_result.get"]
    /\ rPc' = "raised"
    /\ UNCHANGED <<rJd, rResume, rRefs, rYear, rJdSegs, rResSegs, rFacts, rRefSegs, rReqs,
                   rWarn, rK, rEval, rStage3, rOut, rCalls>>
    /\ UNCHANGED notRag

NextRag ==
    \/ RagSegment
    \/ RagStage1
    \/ RagStage2NoCandidates
    \/ RagStage2Evaluate
    \/ RagStage2Raises
    \/ RagStage2Return
    \/ RagStage3Skip
    \/ RagStage3
    \/ RagReturn
    \/ RagReturnRaises

SpecRag == InitRag /\ [][NextRag]_vars

\* the evidence entry cites a segment of the run and quotes from its text
CitationValid(evidence, jd_segments) ==
    /\ evidence.t = "obj" /\ {"id", "quote"} \subseteq DOMAIN evidence.v
    /\ \E n \in 1..Len(jd_segments) :
            /\ jd_segments[n].id = evidence.v["id"].v
            /\ IsSubstring(evidence.v["quote"].v, jd_segments[n].text)

\* the warnings the pipeline can attach; none of them is about a citation
InputAndParseWarnings == {WarnShort, WarnFewBullets, WarnParse, WarnError}

CitationFlagged(warnings) == \E n \in 1..Len(warnings) : warnings[n] \notin InputAndParseWarnings

\* C3: in the output of the grounded pipeline every jd_evidence entry of a
\* requirement cites one of the run's JD segments and quotes verbatim from its
\* text, or a warning flagging the citation is attached.
C3_CitationIntegrity ==
    (rPc = "done" /\ rOut.jd_requirements.t = "list") =>
        \A k \in 1..Len(rOut.jd_requirements.v) :
            LET entry == rOut.jd_requirements.v[k]
                cited == Get(entry, "jd_evidence", JList(<< >>))
            IN  \A n \in 1..Len(cited.v) :
                    CitationValid(cited.v[n], rJdSegs) \/ CitationFlagged(rOut.warnings)

\* the stage 1 response is not JSON, fences removed, or is empty
Stage1NotJson == rCalls # << >> /\ ParseResponse(rCalls[1].response).exc # ""

\* C5: when the stage 1 response is not valid JSON (or is empty), stage 1
\* gives jd_requirements = [] with a diagnostic warning, and the run never
\* raises: it returns with match_evaluation empty and resume_facts and meta
\* populated.
C5_Stage1GarbageStillCompletes ==
    Stage1NotJson =>
        /\ rReqs.t = "list" /\ rReqs.v = << >>
        /\ \E n \in 1..Len(rWarn) : rWarn[n] \in {WarnParse, WarnError}
        /\ rPc # "raised"
        /\ rPc = "done" =>
            /\ rOut.match_evaluation = << >>
            /\ rOut.resume_facts = ExtractResumeFacts(rResume, rYear)
            /\ rOut.meta = [jd_segments_count |-> Len(rJdSegs),
                            resume_segments_count |-> Len(rResSegs),
                            reference_segments_count |-> Len(rRefSegs)]

\* the stages of the completion calls of the run, in the order of the calls
CallStages == [k \in 1..Len(rCalls) |-> rCalls[k].stage]

\* m: the requirements among the first 15 that have a candidate segment
EvaluatedRequirements ==
    IF rReqs.t # "list" THEN {}
    ELSE {k \in 1..Stage2Count(rReqs) : WellFormed(rReqs, k) /\ Candidates(rReqs, k) # << >>}

\* 1 + m + r calls: stage 1, stage 2 once per evaluated requirement, stage 3
\* when there are reference segments
ExpectedStages ==
    <<1>> \o Rep(2, Cardinality(EvaluatedRequirements)) \o (IF rRefSegs # << >> THEN <<3>> ELSE << >>)

\* C22: a run of grounded_rag_analysis goes through its stages in order and
\* ends in Done; the completion service is called exactly 1 + m + r times (m
\* the requirements among the first 15 with a candidate segment, r = 1 when
\* there are reference segments), 17 times at most: stage 1 first, the stage 2
\* calls next, the stage 3 call last.
C22_StagesInOrder ==
    rPc \in {"done", "raised"} =>
        /\ rPc = "done"
        /\ CallStages = ExpectedStages
        /\ Len(rCalls) <= 2 + Stage2Cap

\* the stage 3 response could not be parsed
Stage3Failed ==
    \E k \in 1..Len(rCalls) : rCalls[k].stage = 3 /\ ParseResponse(rCalls[k].response).exc # ""

\* C23: the pattern list of the pipeline result has at most 5 entries
\* whatever the completion service returns; it is empty when there are no
\* reference segments and when the stage 3 call fails or cannot be parsed.
C23_PatternsAtMostFive ==
    rPc = "done" =>
        LET patterns == rOut.common_patterns_in_top_matches
        IN  /\ patterns.t = "list"
            /\ Len(patterns.v) <= PatternLimit
            /\ (rRefSegs = << >> \/ Stage3Failed) => patterns.v = << >>

----------------------------------------------------------------------------
(* stage2_evaluate_match on its own: grounded_rag.py 100-208, called with     *)
(* requirement lists longer than its cap. The requirement at position k is    *)
(* the word "aaa" (found in a resume written in a) or "mmm" (found in none)   *)
(* followed by the two digits of k.                                           *)

MaxStage2Reqs == 17

DigitChar(d) == CHOOSE c \in Digits : DigitVal(c) = d

TwoDigits(k) == <<DigitChar((k \div 10) % 10), DigitChar(k % 10)>>

NumberedRequirement(word, k) == Requirement(word \o <<" ">> \o TwoDigits(k), << >>)

\* the positions whose requirement has the word found in the resume, and
\* the positions holding an entry without its 'requirement'
HitSets == { {}, {1}, {2, Stage2Cap}, {Stage2Cap + 1} }
BadSets == { {}, {2}, {Stage2Cap + 1} }

RequirementList(n, hits, bad) ==
    JList([k \in 1..n |->
            IF k \in bad THEN JObj([type |-> "must"])
            ELSE NumberedRequirement(IF k \in hits THEN LineA(3) ELSE Rep("m", 3), k)])

Stage2Inputs ==
    { RequirementList(n, hits, bad) : n \in 0..MaxStage2Reqs, hits \in HitSets, bad \in BadSets }
        \cup {JNull}

InitStage2 ==
    /\ IndexIdle /\ ScoreIdle /\ SegIdle /\ AppIdle /\ RefIdle /\ FindIdle /\ FactsIdle /\ MetaIdle
    /\ rJd = << >> /\ rRefs = << >>
    /\ rResume \in ResumeTexts
    /\ rYear \in CurrentYears
    /\ rPc = "stage2"
    /\ rJdSegs = << >> /\ rRefSegs = << >>
    /\ rResSegs = Segment("resume", rResume)
    /\ rFacts = ExtractResumeFacts(rResume, rYear)
    /\ rReqs \in Stage2Inputs
    /\ rWarn = << >>
    /\ rK = 0
    /\ rEval = << >>
    /\ rStage3 = EmptyObj
    /\ rOut = NoOut
    /\ rErr = NoErr
    /\ rCalls = << >>

NextStage2 ==
    \/ RagStage2NoCandidates
    \/ RagStage2Evaluate
    \/ RagStage2Raises
    \/ RagStage2Return

SpecStage2 == InitStage2 /\ [][NextStage2]_vars

\* stage2_evaluate_match has returned match_evaluation
Stage2Returned == rPc = "stage3"

\* the entries the loop reaches all have their requirement text
FirstEntriesWellFormed ==
    rReqs.t = "list" /\ \A k \in 1..Min(Stage2Cap, Len(rReqs.v)) : WellFormed(rReqs, k)

Stage2CallCount == Cardinality({c \in 1..Len(rCalls) : rCalls[c].stage = 2})

\* C11: for a requirement list of length n, the match_evaluation that
\* stage2_evaluate_match returns has exactly min(n, 15) entries, the i-th
\* entry carrying the requirement text of the i-th input requirement whatever
\* path (no candidates, evaluated, evaluation error) each requirement took;
\* no requirement beyond the 15th is evaluated, so never more than 15 entries
\* or completion calls exist, and a list whose first 15 entries have their
\* requirement text always makes the function return.
C11_CappedInOrder ==
    /\ Len(rEval) <= Stage2Cap
    /\ Stage2CallCount <= Stage2Cap
    /\ FirstEntriesWellFormed => rPc # "raised"
    /\ Stage2Returned =>
        /\ Len(rEval) = (IF Len(rReqs.v) <= Stage2Cap THEN Len(rReqs.v) ELSE Stage2Cap)
        /\ \A i \in 1..Len(rEval) : rEval[i].requirement = rReqs.v[i].v["requirement"].v

\* a list longer than the cap has been evaluated: the second requirement came
\* back as an evaluation error, the fifteenth as met, the others found no
\* candidate, and the sixteenth was not looked at
C11_Witness_LongListCapped ==
    /\ Stage2Returned
    /\ Len(rReqs.v) > Stage2Cap
    /\ Len(rEval) = Stage2Cap
    /\ rEval[1].notes = JStr("No relevant resume segments found for this requirement")
    /\ rEval[2].notes = JStr("Evaluation error")
    /\ rEval[Stage2Cap].status = JStr("met")
    /\ ~WellFormed(rReqs, Stage2Cap + 1)

\* find_candidate_segments gave no segment for the requirement at position k
NoCandidatesAt(k) ==
    /\ WellFormed(rReqs, k)
    /\ FindCandidateSegments(rReqs.v[k].v["requirement"].v, rResSegs, Stage2TopK) = << >>

\* C12: in stage 2 every requirement for which find_candidate_segments
\* returns no segment is evaluated as status missing, confidence 0.3, with
\* empty resume_evidence, and the completion service is not invoked for it:
\* the stage 2 calls made so far are exactly one per requirement that had
\* candidates.
C12_NoCandidatesShortCircuit ==
    /\ \A k \in 1..Len(rEval) :
          NoCandidatesAt(k) =>
              /\ rEval[k].status = JStr("missing")
              /\ rEval[k].confidence = 30
              /\ rEval[k].resume_evidence = JList(<< >>)
    /\ Stage2CallCount = Cardinality({k \in 1..Len(rEval) : ~NoCandidatesAt(k)})

\* stage 2 has returned after a requirement that found no candidate (no call)
\* and one that had candidates (one call)
C12_Witness_ShortCircuitAndCall ==
    /\ Stage2Returned
    /\ Len(rEval) >= 2
    /\ NoCandidatesAt(1) /\ ~NoCandidatesAt(2)
    /\ rEval[1].confidence = 30 /\ rEval[1].status = JStr("missing")
    /\ Stage2CallCount = 1

\* the response the completion service gave for the requirement at position
\* k, which had candidates: the calls are made in requirement order
CallIndex(k) == Cardinality({j \in 1..k : ~NoCandidatesAt(j)})

EvaluationFailedAt(k) ==
    /\ ~NoCandidatesAt(k)
    /\ CallIndex(k) <= Len(rCalls)
    /\ ParseResponse(rCalls[CallIndex(k)].response).exc # ""

\* C13: in stage 2 a failure while evaluating one requirement (a failed
\* completion call, an empty or unparseable response, a malformed requirement
\* entry) gives that requirement an evaluation with status missing and a
\* diagnostic note, every other requirement among the first 15 is still
\* evaluated and present in match_evaluation, and stage2_evaluate_match does
\* not raise.
C13_RequirementFailureIsolated ==
    rReqs.t = "list" =>
        /\ rPc # "raised"
        /\ \A k \in 1..Len(rEval) :
              EvaluationFailedAt(k) =>
                  rEval[k].status = JStr("missing") /\ rEval[k].notes.v # ""
        /\ Stage2Returned =>
              Len(rEval) = (IF Len(rReqs.v) <= Stage2Cap THEN Len(rReqs.v) ELSE Stage2Cap)

InBand(status, confidence) ==
    \/ status = JStr("met") /\ confidence >= 80 /\ confidence <= 100
    \/ status = JStr("partial") /\ confidence >= 40 /\ confidence <= 70
    \/ status = JStr("missing") /\ confidence >= 0 /\ confidence <= 40

\* C14: every entry of match_evaluation, whatever the completion service
\* answered, has a status among met, partial, missing and a confidence inside
\* the band of that status: met 0.8..1.0, partial 0.4..0.7, missing 0.0..0.4.
C14_StatusAndConfidenceInBand ==
    \A k \in 1..Len(rEval) : InBand(rEval[k].status, rEval[k].confidence)

OutputFields ==
    {"jd_requirements", "match_evaluation", "common_patterns_in_top_matches", "warnings",
     "resume_facts", "meta"}

\* C15: whatever the completion service answers at any stage (empty text,
\* text that is not JSON, JSON of another shape than asked for), the grounded
\* pipeline ends by returning a result with all its output fields; it never
\* raises to its caller.
C15_PipelineNeverRaises ==
    /\ rErr = NoErr
    /\ rPc \notin {"raised"}
    /\ rPc = "done" => OutputFields \subseteq DOMAIN rOut

----------------------------------------------------------------------------
(* segment_reference_resumes, line by line: evidence_segmenter.py 137-169.    *)
(* The lines of the reference resumes carry their number, so that the order   *)
(* of the segments shows the order of the scan.                               *)

MaxRefLines == 12
MaxRefResumes == 3

\* a bullet line with a number, long enough
MetricBullet(n) == <<"-", " ">> \o TwoDigits(n) \o <<" ">> \o Rep("b", RefMinLen)

\* the lines that are no achievement bullet: a numbered line without a
\* bullet, a bullet without a digit, a bullet with a number that is too short
OtherLine(n) ==
    CASE n % 3 = 0 -> TwoDigits(n) \o <<" ">> \o Rep("b", RefMinLen)
      [] n % 3 = 1 -> <<"*", " ">> \o Rep("b", RefMinLen)
      [] n % 3 = 2 -> <<"U+2022", " ">> \o TwoDigits(n)

ReferenceResume(lines, mixed, score) ==
    [text |-> [n \in 1..lines |-> IF mixed /\ n % 2 = 0 THEN OtherLine(n \div 2) ELSE MetricBullet(n)],
     similarity_score |-> score]

ReferencePool ==
    { [text |-> << << >> >>, similarity_score |-> 10],
      ReferenceResume(MaxRefLines, FALSE, 90),
      ReferenceResume(MaxRefLines, TRUE, 80),
      ReferenceResume(3, FALSE, 70) }

TopNs == {1, 2, RagTopN}

InitRef ==
    /\ IndexIdle /\ ScoreIdle /\ SegIdle /\ RagIdle /\ AppIdle /\ FindIdle /\ FactsIdle /\ MetaIdle
    /\ fRefs \in UNION {[1..n -> ReferencePool] : n \in 0..MaxRefResumes}
    /\ fTopN \in TopNs
    /\ fIdx = 0
    /\ fLine = 0
    /\ fSegs = << >>
    /\ fId = 1
    /\ fPc = "scan"

\* the resumes the outer loop goes through: len(reference_resumes[:top_n])
RefCount == Min(fTopN, Len(fRefs))

\* a scan that never stops at the limit
RefLimitNever(segment_id) == FALSE

\* if segment_id > 20: return segments
RefLimitReached(segment_id) == segment_id > MaxRefSegs

\* for line in lines: one line of the current resume
RefScanLine ==
    /\ fPc = "scan" /\ fIdx < RefCount
    /\ fLine < Len(fRefs[fIdx + 1].text)
    /\ LET resume == fRefs[fIdx + 1]
           line == Strip(resume.text[fLine + 1])
       IN  IF IsAchievementBullet(line)
           THEN /\ fSegs' = Append(fSegs, [id |-> <<"REF#", fId>>, text |-> CleanBullet(line),
                                           source_idx |-> fIdx,
                                           source_score |-> resume.similarity_score])
                /\ fId' = fId + 1
                /\ fPc' = IF RefLimitReached(fId + 1) THEN "done" ELSE "scan"
           ELSE UNCHANGED <<fSegs, fId, fPc>>
    /\ fLine' = fLine + 1
    /\ UNCHANGED <<fRefs, fTopN, fIdx>>
    /\ UNCHANGED notRef

\* the lines of the current resume are through: the next resume
RefNextResume ==
    /\ fPc = "scan" /\ fIdx < RefCount
    /\ fLine = Len(fRefs[fIdx + 1].text)
    /\ fIdx' = fIdx + 1
    /\ fLine' = 0
    /\ UNCHANGED <<fRefs, fTopN, fSegs, fId, fPc>>
    /\ UNCHANGED notRef

\* the resumes are through: return segments
RefReturn ==
    /\ fPc = "scan" /\ fIdx = RefCount
    /\ fPc' = "done"
    /\ UNCHANGED <<fRefs, fTopN, fIdx, fLine, fSegs, fId>>
    /\ UNCHANGED notRef

NextRef ==
    \/ RefScanLine
    \/ RefNextResume
    \/ RefReturn

SpecRef == InitRef /\ [][NextRef]_vars

\* the segment comes from a line of the resume that starts with a bullet
\* character and holds a digit
FromMetricBullet(seg, resume) ==
    \E n \in 1..Len(resume.text) :
        LET line == Strip(resume.text[n])
        IN  /\ line # << >> /\ line[1] \in {"-", "U+2022", "*"}
            /\ \E k \in 1..Len(line) : line[k] \in Digits
            /\ seg.text = CleanBullet(line)

\* C20: segment_reference_resumes returns at most 20 segments in total over
\* all resumes, takes them only from the first top_n resumes, every segment
\* from a line that starts with -, U+2022 or * and holds at least one digit,
\* with ids REF#1..REF#N in the order of the scan (resume by resume, line by
\* line).
C20_ReferenceSegmentsCapped ==
    /\ Len(fSegs) <= 20
    /\ \A k \in 1..Len(fSegs) :
          /\ fSegs[k].id = <<"REF#", k>>
          /\ fSegs[k].source_idx < fTopN /\ fSegs[k].source_idx < Len(fRefs)
          /\ FromMetricBullet(fSegs[k], fRefs[fSegs[k].source_idx + 1])
    /\ \A a, b \in 1..Len(fSegs) : a < b => fSegs[a].source_idx <= fSegs[b].source_idx
    /\ fPc = "done" => fSegs = SegmentReferenceResumes(fRefs, fTopN)

\* the scan stopped at the twentieth segment inside the second of three
\* resumes, top_n being 2: the first resume gave its twelve bullets, the
\* second eight of its twelve, the third was not looked at
C20_Witness_StoppedAtTwenty ==
    /\ fPc = "done"
    /\ Len(fRefs) = 3 /\ fTopN = 2
    /\ Len(fSegs) = 20
    /\ fIdx = 1 /\ fLine < Len(fRefs[2].text)
    /\ fSegs[12].source_idx = 0 /\ fSegs[13].source_idx = 1
    /\ fSegs[13].text = TwoDigits(1) \o <<" ">> \o Rep("b", RefMinLen)

----------------------------------------------------------------------------
(* Request handlers: app.py. One request at a time; a response is            *)
(* [status, error, count], count being the number of results it lists.        *)

MaxRequests == 2

AnalyzeTopK == 50
AnalyzeShown == 10
ImproveTopK == 5
SearchTopN == 5

\* text.split('\n')
RECURSIVE SplitLines(_)
SplitLines(text) ==
    IF \A k \in 1..Len(text) : text[k] # "\n" THEN <<text>>
    ELSE LET k == CHOOSE k \in 1..Len(text) :
                    text[k] = "\n" /\ \A j \in 1..(k - 1) : text[j] # "\n"
         IN  <<SubSeq(text, 1, k - 1)>> \o SplitLines(SubSeq(text, k + 1, Len(text)))

\* the files on the server: load_and_clean(path)
ServerPaths == {"cv/a.pdf", "cv/gone.pdf"}

FileExists(path) == path = "cv/a.pdf"

LoadAndClean(path) == <<"-", " ", "9", " ">> \o Rep("b", RefMinLen)

\* p.split("/")[-1]
Basename(path) == IF path = "cv/a.pdf" THEN "a.pdf" ELSE "gone.pdf"

\* allowed_file(filename)
AllowedFile(filename) == filename \in {"cv.pdf", "cv.docx", "cv.txt"}

\* (value or "")
OrEmpty(value) ==
    IF value.t = "null" \/ (value.t = "str" /\ value.v = << >>) \/ (value.t = "num" /\ value.v = 0)
    THEN JStr(<< >>) ELSE value

\* int(value)
IntOk(value) ==
    \/ value.t = "num"
    \/ value.t = "str" /\ value.v # << >> /\ \A k \in 1..Len(value.v) : value.v[k] \in Digits

JsonHandlers == {"analyze", "search_resumes", "find_references", "query"}

\* the jd_text / query / prompt values of a JSON body
JsonInputs == {JNull, JStr(<< >>), JStr(<<" ">>), JStr(<<" ", "a", " ">>), JNum(7)}

\* request.form.get('jd_text', '')
FormInputs == {JStr(<< >>), JStr(<<" ", " ">>), JStr(<<"a", "b", " ">>)}

Requests ==
    { [handler |-> "analyze", text |-> t, top_k |-> JNum(AnalyzeTopK), paths |-> ps, file |-> "", flag |-> FALSE] :
            t \in JsonInputs,
            ps \in {<< >>, <<"cv/a.pdf">>, <<"cv/gone.pdf">>, <<"cv/gone.pdf", "cv/a.pdf">>} }
    \cup { [handler |-> h, text |-> t, top_k |-> k, paths |-> << >>, file |-> "", flag |-> f] :
            h \in {"search_resumes", "find_references", "query"}, t \in JsonInputs,
            k \in {JNum(2), JStr(<<"a">>)}, f \in BOOLEAN }
    \cup { [handler |-> "improve_with_jd", text |-> t, top_k |-> JNum(ImproveTopK), paths |-> << >>, file |-> f, flag |-> FALSE] :
            t \in FormInputs, f \in {"no file", "", "cv.pdf", "cv.exe"} }

\* the input is taken as it comes
TextUnstripped(request) == OrEmpty(request.text).v

\* (data.get(...) or "").strip() / request.form.get('jd_text', '').strip()
Text(request) == Strip(OrEmpty(request.text).v)

Error(status, error) == [status |-> status, error |-> error, count |-> 0]

Required(handler) ==
    CASE handler = "find_references" -> "query is required"
      [] handler = "query" -> "prompt is required"
      [] OTHER -> "jd_text is required"

\* the handler up to the first call it makes: the response it returns from
\* there, NoResp when it goes on
Prologue(request) ==
    IF request.handler = "improve_with_jd"
    THEN IF request.file = "no file" THEN Error(400, "No file provided")
         ELSE IF request.file = "" THEN Error(400, "No file selected")
         ELSE IF Text(request) = << >> THEN Error(400, "Job description is required")
         ELSE IF ~AllowedFile(request.file) THEN Error(400, "Invalid file type")
         ELSE NoResp
    ELSE IF OrEmpty(request.text).t # "str" THEN Error(500, "AttributeError")
    ELSE IF request.handler # "analyze" /\ ~IntOk(request.top_k) THEN Error(500, "ValueError")
    ELSE IF Text(request) = << >> THEN Error(400, Required(request.handler))
    ELSE NoResp

InitApp ==
    /\ IndexIdle /\ ScoreIdle /\ SegIdle /\ RagIdle /\ RefIdle /\ FindIdle /\ FactsIdle /\ MetaIdle
    /\ aCol = {}
    /\ aReq = NoRequest
    /\ aPc = "idle"
    /\ aI = 0
    /\ aLog = << >>
    /\ aResp = NoResp
    /\ aBefore = {}
    /\ aN = 0

\* a request arrives
AppReceive ==
    /\ aPc = "idle" /\ aN < MaxRequests
    /\ \E request \in Requests : aReq' = request
    /\ aPc' = "prologue"
    /\ aI' = 0
    /\ aLog' = << >>
    /\ aResp' = NoResp
    /\ aBefore' = aCol
    /\ aN' = aN + 1
    /\ UNCHANGED aCol
    /\ UNCHANGED notApp

\* the handler returns from its checks
AppReject ==
    /\ aPc = "prologue" /\ Prologue(aReq) # NoResp
    /\ aResp' = Prologue(aReq)
    /\ aPc' = "idle"
    /\ UNCHANGED <<aCol, aReq, aI, aLog, aBefore, aN>>
    /\ UNCHANGED notApp

\* the handler goes on past its checks
AppAdmit ==
    /\ aPc = "prologue" /\ Prologue(aReq) = NoResp
    /\ aPc' = "body"
    /\ UNCHANGED <<aCol, aReq, aI, aLog, aResp, aBefore, aN>>
    /\ UNCHANGED notApp

Hits(text, top_k) == ColQuery(aCol, Embed(text), top_k)

\* the hits as reference resumes
References(hits) ==
    [k \in 1..Len(hits) |-> [text |-> SplitLines(hits[k].document), similarity_score |-> hits[k].distance]]

\* /api/analyze, for p in paths: load, extract, upsert. The metadata holds
\* lists, which the collection may refuse
AppAnalyzeUpsert ==
    /\ aPc = "body" /\ aReq.handler = "analyze" /\ aI < Len(aReq.paths)
    /\ LET path == aReq.paths[aI + 1]
           text == LoadAndClean(path)
       IN  IF ~FileExists(path)
           THEN /\ aResp' = Error(500, "FileNotFoundError")
                /\ aPc' = "idle"
                /\ UNCHANGED <<aCol, aI, aLog>>
           ELSE /\ aLog' = aLog \o <<"embed", "upsert">>
                /\ \/ /\ aCol' = ColUpsert(aCol, HashId(path), text,
                                    [filename |-> Basename(path), skills |-> << >>, titles |-> << >>, years |-> 0],
                                    Embed(text))
                      /\ aI' = aI + 1
                      /\ UNCHANGED <<aPc, aResp>>
                   \/ /\ aResp' = Error(500, "ValueError")
                      /\ aPc' = "idle"
                      /\ UNCHANGED <<aCol, aI>>
    /\ UNCHANGED <<aReq, aBefore, aN>>
    /\ UNCHANGED notApp

\* /api/analyze after the loop: query when no path was given, score_and_rank
AppAnalyzeRank ==
    /\ aPc = "body" /\ aReq.handler = "analyze" /\ aI = Len(aReq.paths)
    /\ LET queried == aReq.paths = << >>
           n == IF queried THEN Len(Hits(Text(aReq), AnalyzeTopK)) ELSE Len(aReq.paths)
       IN  /\ aLog' = aLog \o (IF queried THEN <<"embed", "query">> ELSE << >>) \o Rep("embed", 1 + n)
           /\ aResp' = [status |-> 200, error |-> "", count |-> Min(AnalyzeShown, n)]
    /\ aPc' = "idle"
    /\ UNCHANGED <<aCol, aReq, aI, aBefore, aN>>
    /\ UNCHANGED notApp

\* /api/search-resumes: query, grounded_search_insights (stage 1, stage 3
\* when there are reference segments; a stage 3 result that is no dict raises)
AppSearchResumes ==
    /\ aPc = "body" /\ aReq.handler = "search_resumes"
    /\ LET hits == Hits(Text(aReq), aReq.top_k.v)
           stage3 == SegmentReferenceResumes(References(hits), SearchTopN) # << >>
       IN  /\ aLog' = aLog \o <<"embed", "query", "completion">> \o (IF stage3 THEN <<"completion">> ELSE << >>)
           /\ \/ aResp' = [status |-> 200, error |-> "", count |-> Len(hits)]
              \/ stage3 /\ aResp' = Error(500, "Search failed")
    /\ aPc' = "idle"
    /\ UNCHANGED <<aCol, aReq, aI, aBefore, aN>>
    /\ UNCHANGED notApp

\* /api/find-references (flag: include_comparison and user_resume_text) and
\* /api/query (flag: use_mistral): query, one completion when asked for and
\* there are hits
AppQuery ==
    /\ aPc = "body" /\ aReq.handler \in {"find_references", "query"}
    /\ LET hits == Hits(Text(aReq), aReq.top_k.v)
       IN  /\ aLog' = aLog \o <<"embed", "query">>
                        \o (IF aReq.flag /\ hits # << >> THEN <<"completion">> ELSE << >>)
           /\ aResp' = [status |-> 200, error |-> "", count |-> Len(hits)]
    /\ aPc' = "idle"
    /\ UNCHANGED <<aCol, aReq, aI, aBefore, aN>>
    /\ UNCHANGED notApp

\* /api/improve-with-jd: save and load the file, query, grounded_rag_analysis
\* (stage 1, a call per evaluated requirement, stage 3 when there are
\* reference segments), analyze_resume_for_job
AppImproveWithJd ==
    /\ aPc = "body" /\ aReq.handler = "improve_with_jd"
    /\ LET hits == Hits(Text(aReq), ImproveTopK)
           stage3 == SegmentReferenceResumes(References(hits), RagTopN) # << >>
       IN  \E evaluated \in 0..1 :
            /\ \/ /\ aLog' = aLog \o <<"embed", "query">> \o Rep("completion", 1 + evaluated)
                                \o (IF stage3 THEN <<"completion">> ELSE << >>) \o <<"completion">>
                  /\ aResp' = [status |-> 200, error |-> "", count |-> Len(hits)]
               \/ /\ stage3
                  /\ aLog' = aLog \o <<"embed", "query">> \o Rep("completion", 2 + evaluated)
                  /\ aResp' = Error(500, "Failed to analyze resume")
    /\ aPc' = "idle"
    /\ UNCHANGED <<aCol, aReq, aI, aBefore, aN>>
    /\ UNCHANGED notApp

NextApp ==
    \/ AppReceive
    \/ AppReject
    \/ AppAdmit
    \/ AppAnalyzeUpsert
    \/ AppAnalyzeRank
    \/ AppSearchResumes
    \/ AppQuery
    \/ AppImproveWithJd

SpecApp == InitApp /\ [][NextApp]_vars

\* the JD, query or prompt of the request is empty once stripped
EmptyAfterStrip(request) ==
    /\ request.handler \in JsonHandlers \cup {"improve_with_jd"}
    /\ OrEmpty(request.text).t = "str"
    /\ Strip(OrEmpty(request.text).v) = << >>

\* C6: a request to /api/analyze, /api/search-resumes, /api/find-references,
\* /api/query or /api/improve-with-jd whose input is empty after stripping
\* never gets past the checks: no embed, upsert, query or completion call is
\* made for it, the index is as it was, and the response is an error.
C6_EmptyInputRejectedBeforeCalls ==
    EmptyAfterStrip(aReq) =>
        /\ aPc # "body"
        /\ aLog = << >>
        /\ aCol = aBefore
        /\ aPc = "idle" => aResp.status >= 400

\* C6 witness: a whitespace-only input was rejected with the index populated
C6_Witness_BlankRejected ==
    /\ aPc = "idle" /\ aReq.handler \in JsonHandlers
    /\ aReq.text.t = "str" /\ aReq.text.v # << >> /\ EmptyAfterStrip(aReq)
    /\ aResp.status = 400
    /\ aCol # {} /\ aCol = aBefore


\* the paths of the /api/analyze request the loop has taken up: those it went
\* through and, when the request ended in an error, the one that raised
PathsAttempted == IF aResp.status = 200 THEN aI ELSE aI + 1

\* C21: an error on one path of /api/analyze (extraction, embedding or
\* upsert) aborts only that path: once the request is answered, every path of
\* server_resume_paths has been taken up by the loop.
C21_ItemFailureIsolated ==
    (aReq.handler = "analyze" /\ aPc = "idle" /\ Prologue(aReq) = NoResp)
        => PathsAttempted = Len(aReq.paths)


----------------------------------------------------------------------------
(* find_candidate_segments on its own: evidence_segmenter.py 261-297. The     *)
(* segments are numbered R#1, R#2, ... in the order of the input.             *)

MaxFindSegs == 3
MaxFindK == 3

FindRequirements ==
    { <<"a", "a", "a">>,
      <<"A", "a", "a", " ", "b", "b", "b">>,
      <<"a", "b", " ", "m", "m", "m", " ", "b", "b", "b", "1">>,
      Rep("m", PrefixLen) \o <<" ", "a", "a", "a">> }

FindTexts ==
    { <<"a", "a", "a">>,
      <<"b", "b", "b", " ", "A", "A", "A">>,
      <<"a", "a", "a", " ", "b", "b", "b">>,
      <<"m", "m", "m">>,
      Rep("M", PrefixLen),
      <<"a", "b">> }

NumberedSegments(texts) == [n \in 1..Len(texts) |-> [id |-> <<"R#", n>>, text |-> texts[n]]]

InitFind ==
    /\ IndexIdle /\ ScoreIdle /\ SegIdle /\ RagIdle /\ AppIdle /\ RefIdle /\ FactsIdle /\ MetaIdle
    /\ cReq \in FindRequirements
    /\ cSegs \in {NumberedSegments(texts) : texts \in UNION {[1..n -> FindTexts] : n \in 0..MaxFindSegs}}
    /\ cK \in 0..MaxFindK
    /\ cOut = << >>
    /\ cPc = "call"

\* the call: the scored copies are returned, the records of segments stay
\* as they are
FindCall ==
    /\ cPc = "call"
    /\ cOut' = FindCandidateSegments(cReq, cSegs, cK)
    /\ cPc' = "done"
    /\ UNCHANGED <<cReq, cSegs, cK>>
    /\ UNCHANGED notFind

NextFind == FindCall

SpecFind == InitFind /\ [][NextFind]_vars

\* the words of a lowercased text: the maximal runs of letters, digits and _
RECURSIVE WordsFrom(_, _, _)
WordsFrom(l, n, word) ==
    IF n > Len(l) THEN (IF word = << >> THEN {} ELSE {word})
    ELSE IF IsWordChar(l[n]) THEN WordsFrom(l, n + 1, Append(word, l[n]))
    ELSE (IF word = << >> THEN {} ELSE {word}) \cup WordsFrom(l, n + 1, << >>)

\* the distinct keywords of a requirement: its words of three letters or
\* more, lowercased
KeywordsOf(requirement) ==
    { w \in WordsFrom(ToLower(requirement), 1, << >>) :
        Len(w) >= 3 /\ \A n \in 1..Len(w) : w[n] \in Lower }

\* the keywords that occur in the text, plus 5 when the first 20 characters
\* of the requirement occur in it, case ignored
ExpectedMatchScore(requirement, text) ==
    Cardinality({w \in KeywordsOf(requirement) : IsSubstring(w, ToLower(text))})
        + (IF IsSubstring(ToLower(SubSeq(requirement, 1, Min(20, Len(requirement)))), ToLower(text))
           THEN 5 ELSE 0)

\* the position in the input of the segment an entry of the result was made of
InputPosition(entry) == entry.id[2]

\* C24: find_candidate_segments(requirement, segments, k) returns at most k
\* segments, each a segment of the input with a match_score above 0 that is
\* the number of distinct keywords of the requirement (3 letters or more)
\* occurring in its text, plus 5 when the first 20 characters of the
\* requirement occur in it, case ignored; the scores never increase along the
\* result and equal scores keep the order of the input; the records of the
\* input are not modified.
C24_CandidatesScoredAndOrdered ==
    cPc = "done" =>
        /\ Len(cOut) <= cK
        /\ \A n \in 1..Len(cOut) :
              /\ InputPosition(cOut[n]) \in 1..Len(cSegs)
              /\ cSegs[InputPosition(cOut[n])] = [id |-> cOut[n].id, text |-> cOut[n].text]
              /\ cOut[n].match_score > 0
              /\ cOut[n].match_score = ExpectedMatchScore(cReq, cOut[n].text)
        /\ \A n \in 1..Len(cOut) : \A p \in (n + 1)..Len(cOut) :
              \/ cOut[n].match_score > cOut[p].match_score
              \/ /\ cOut[n].match_score = cOut[p].match_score
                 /\ InputPosition(cOut[n]) < InputPosition(cOut[p])
        /\ \A n \in 1..Len(cSegs) : DOMAIN cSegs[n] = {"id", "text"}

\* a call that cut three matching segments to two: the segment with the
\* phrase bonus, third in the input, comes first, and of the two segments
\* that tie the earlier one is kept
C24_Witness_BonusFirstTieInOrder ==
    /\ cPc = "done" /\ cK = 2 /\ Len(cSegs) = 3 /\ Len(cOut) = 2
    /\ \A n \in 1..3 : ExpectedMatchScore(cReq, cSegs[n].text) > 0
    /\ cOut[1].id = <<"R#", 3>> /\ cOut[1].match_score > PhraseBonus
    /\ cOut[2].id = <<"R#", 1>>
    /\ ExpectedMatchScore(cReq, cSegs[2].text) = cOut[2].match_score


----------------------------------------------------------------------------
(* segment_jd / segment_resume called again: segments, segment_id and         *)
(* current_segment are locals of the call (evidence_segmenter.py 13-19,       *)
(* 81-85).                                                                    *)

MaxSegCalls == 2
MaxTwiceLines == 3

\* a blank line, a line too short for a segment, a line long enough, a
\* bullet of each
TwiceLinePool(kind) ==
    { << >>,
      Rep("b", MinLen(kind) \div 2),
      Rep("a", MinLen(kind) + 1),
      <<"-", " ">> \o Rep("b", MinLen(kind) \div 2),
      <<"-", " ">> \o Rep("a", MinLen(kind) + 1) }

TwiceTexts(kind) == UNION {[1..n -> TwiceLinePool(kind)] : n \in 1..MaxTwiceLines}

InitSegTwice ==
    /\ IndexIdle /\ ScoreIdle /\ RagIdle /\ AppIdle /\ RefIdle /\ FindIdle /\ FactsIdle /\ MetaIdle
    /\ gKind \in {"jd", "resume"}
    /\ gLines \in TwiceTexts(gKind)
    /\ gI = 0
    /\ gCur = << >>
    /\ gSegs = << >>
    /\ gId = 1
    /\ gPc = "scan"
    /\ gCalls = 1

\* the next call, after the last one has returned: its locals are new
SegCall ==
    /\ gPc = "done" /\ gCalls < MaxSegCalls
    /\ \E kind \in {"jd", "resume"} :
         /\ gKind' = kind
         /\ gLines' \in TwiceTexts(kind)
    /\ gI' = 0
    /\ gCur' = << >>
    /\ gSegs' = << >>
    /\ gId' = 1
    /\ gPc' = "scan"
    /\ gCalls' = gCalls + 1
    /\ UNCHANGED notSeg

NextSegTwice ==
    \/ SegScanLine
    \/ SegFinish
    \/ SegCall

SpecSegTwice == InitSegTwice /\ [][NextSegTwice]_vars

\* C25: within a call of segment_jd or segment_resume the ids of the
\* segments are PREFIX#1 .. PREFIX#N in the order of the list, without gap or
\* duplicate, also when candidates too short for a segment were dropped on
\* the way; the next id to give is N + 1, and a second call starts again at 1.
C25_IdsConsecutiveFromOne ==
    /\ \A n \in 1..Len(gSegs) : gSegs[n].id = <<(IF gKind = "jd" THEN "JD#" ELSE "R#"), n>>
    /\ gPc = "scan" => gId = Len(gSegs) + 1

\* a second call that dropped a short bullet between two segments: the
\* segments are numbered 1 and 2
C25_Witness_SecondCallGapless ==
    /\ gCalls = 2 /\ gPc = "done"
    /\ Len(gLines) = 3
    /\ \A n \in 2..3 : IsNewSegment(gKind, gLines[n])
    /\ Len(CleanLine(gLines[2])) \in 1..MinLen(gKind)
    /\ Len(gSegs) = 2
    /\ gSegs[1].id[2] = 1 /\ gSegs[1].text = CleanLine(gLines[1])
    /\ gSegs[2].id[2] = 2 /\ gSegs[2].text = CleanLine(gLines[3])


----------------------------------------------------------------------------
(* extract_resume_facts run again on the same text while the clock moves:     *)
(* evidence_segmenter.py 172-258. current_year is read from the clock at      *)
(* each run (222).                                                            *)

MaxFactsLines == 2
MaxRuns == 2

LineYears == <<"2", "0", "2", "0", "-", "2", "0", "2", "3">>

LineSince == <<"M", "a", "r", " ", "2", "0", "2", "2", " ", "-", " ", "P", "r", "e", "s", "e", "n", "t">>

LineMonths ==
    <<"s", "e", "p", " ", "2", "0", "2", "0", " ", "-", " ", "a", "p", "r", " ", "2", "0", "2", "1">>

LineDegree == <<"M", ".", "s", ".", " ", "a", "a", "a">>

LineOther == <<"a", "a", "a", " ", "9">>

\* the lines that hold a date range, each written once
RangeLines == {LineYears, LineSince, LineMonths}

FactsLinePool == RangeLines \cup {LineDegree, LineOther}

InitFacts ==
    /\ IndexIdle /\ ScoreIdle /\ SegIdle /\ RagIdle /\ AppIdle /\ RefIdle /\ FindIdle /\ MetaIdle
    /\ xLines \in UNION {[1..n -> FactsLinePool] : n \in 1..MaxFactsLines}
    /\ xYear \in CurrentYears
    /\ xRuns = << >>

\* a call of extract_resume_facts(resume_text)
FactsRun ==
    /\ Len(xRuns) < MaxRuns
    /\ xRuns' = Append(xRuns, [year |-> xYear, facts |-> ExtractResumeFacts(xLines, xYear)])
    /\ UNCHANGED <<xLines, xYear>>
    /\ UNCHANGED notFacts

\* time passes between two calls
FactsClock ==
    /\ \E year \in CurrentYears : year > xYear /\ xYear' = year
    /\ UNCHANGED <<xLines, xRuns>>
    /\ UNCHANGED notFacts

NextFacts ==
    \/ FactsRun
    \/ FactsClock

SpecFacts == InitFacts /\ [][NextFacts]_vars

\* C27: extract_resume_facts is a function of the text alone: two runs on
\* the same text, whenever they are made, return the same education,
\* experience_ranges and total_years_experience.
C27_FactsDependOnTextOnly ==
    \A i, j \in 1..Len(xRuns) :
        /\ xRuns[i].facts.education = xRuns[j].facts.education
        /\ xRuns[i].facts.experience_ranges = xRuns[j].facts.experience_ranges
        /\ xRuns[i].facts.total_years_experience = xRuns[j].facts.total_years_experience

\* the date ranges written in the text, in order
WrittenRanges(lines) == LET IsRange(l) == l \in RangeLines IN SelectSeq(lines, IsRange)

\* the years a written range spans, read in the given year
WrittenYears(l, year) ==
    CASE l = LineYears -> 3
      [] l = LineSince -> year - 2022
      [] l = LineMonths -> 1

\* C28: every date range written once in the text ('Mar 2022 - Present',
\* '2020-2023') gives exactly one entry of experience_ranges; no duration is
\* negative; total_years_experience is the sum of the durations, so a text
\* with a single range of d years has a total of d.
C28_OneEntryPerRange ==
    \A i \in 1..Len(xRuns) :
        LET facts == xRuns[i].facts
            written == WrittenRanges(xLines)
        IN  /\ Len(facts.experience_ranges) = Len(written)
            /\ \A n \in 1..Len(facts.experience_ranges) : facts.experience_ranges[n].duration_years >= 0
            /\ facts.total_years_experience = SumDurations(facts.experience_ranges)
            /\ Len(written) = 1 => facts.total_years_experience = WrittenYears(written[1], xRuns[i].year)


----------------------------------------------------------------------------
(* The metadata of a resume, written by the five paths that index resumes     *)
(* and read back by the handlers that list candidates. A metadata value is a  *)
(* text (its characters), a list of texts or a number; fields is what         *)
(* extract_fields returned for the resume: [skills, titles, years_exp].       *)

MaxWrites == 2

SkillCap == 50

MetaStr(chars) == [t |-> "str", v |-> chars, items |-> << >>]
MetaList(items) == [t |-> "list", v |-> << >>, items |-> items]

\* sep.join(parts)
RECURSIVE JoinWith(_, _)
JoinWith(sep, parts) ==
    IF parts = << >> THEN << >>
    ELSE IF Len(parts) = 1 THEN parts[1]
    ELSE parts[1] \o <<sep>> \o JoinWith(sep, Tail(parts))

\* text.split(sep)
RECURSIVE SplitOn(_, _)
SplitOn(sep, text) ==
    IF \A k \in 1..Len(text) : text[k] # sep THEN <<text>>
    ELSE LET k == CHOOSE k \in 1..Len(text) :
                    text[k] = sep /\ \A j \in 1..(k - 1) : text[j] # sep
         IN  <<SubSeq(text, 1, k - 1)>> \o SplitOn(sep, SubSeq(text, k + 1, Len(text)))

\* [s.strip() for s in value.split(",") if s.strip()] if value else []
ListOfField(value) ==
    IF value.v = << >> THEN << >>
    ELSE LET pieces == SplitOn(",", value.v)
             NotBlank(piece) == Strip(piece) # << >>
             kept == SelectSeq(pieces, NotBlank)
         IN  [k \in 1..Len(kept) |-> Strip(kept[k])]

\* dict.get(key, default)
MetaGet(metadata, key, default) == IF key \in DOMAIN metadata THEN metadata[key] ELSE default

\* what extract_fields can return: skills of SKILL_BANK, titles of
\* TITLE_HINTS, a line taken for a title, "unknown", the years
Aws == <<"a", "w", "s">>
Sql == <<"s", "q", "l">>
Unknown == <<"u", "n", "k", "n", "o", "w", "n">>
Engineer == <<"e", "n", "g", "i", "n", "e", "e", "r">>
TitleLine == <<"s", "e", "n", "i", "o", "r", " ", "a", "n", "a", "l", "y", "s", "t", ",", " ", "a", "b">>

FieldPool ==
    { [skills |-> s, titles |-> t, years_exp |-> y] :
        s \in {<< >>, <<Aws, Sql>>}, t \in {<<Unknown>>, <<Engineer>>, <<TitleLine>>}, y \in {0, 5} }

\* the skills column of a CSV row, parsed
CsvSkillLists == {<< >>, <<Sql>>}

ResumeText == <<"a">>

\* list(set(items)): the distinct items, in an order of the set's own
ListsOfSet(items) ==
    LET S == Range(items)
    IN  {s \in [1..Cardinality(S) -> S] : Range(s) = S}

InitMeta ==
    /\ IndexIdle /\ ScoreIdle /\ SegIdle /\ RagIdle /\ AppIdle /\ RefIdle /\ FindIdle /\ FactsIdle
    /\ wCol = {}
    /\ wLog = << >>
    /\ wRead = NoOut

\* index.upsert_resume(path, text, metadata) by one of the paths
Written(writer, fields, metadata) ==
    /\ wCol' = ColUpsert(wCol, HashId(writer), ResumeText, metadata, Embed(ResumeText))
    /\ wLog' = Append(wLog, [writer |-> writer, id |-> HashId(writer), fields |-> fields, stored |-> TRUE])
    /\ wRead' = NoOut

\* /api/upload
WriteUpload ==
    /\ Len(wLog) < MaxWrites
    /\ \E fields \in FieldPool :
         LET metadata == [filename |-> "cv.pdf", category |-> "uploaded", name |-> "",
                          skills |-> MetaStr(JoinWith(",", fields.skills)),
                          titles |-> MetaStr(JoinWith(",", fields.titles)),
                          years |-> fields.years_exp]
         IN  Written("upload_resume", fields, metadata)
    /\ UNCHANGED notMeta

\* /api/analyze, one path of server_resume_paths: the lists go into the
\* metadata as they are, and the collection takes them or raises ValueError
WriteAnalyze ==
    /\ Len(wLog) < MaxWrites
    /\ \E fields \in FieldPool :
         \/ LET metadata == [filename |-> "cv.pdf", skills |-> MetaList(fields.skills), titles |-> MetaList(fields.titles),
                             years |-> fields.years_exp]
            IN  Written("analyze", fields, metadata)
         \/ /\ wLog' = Append(wLog, [writer |-> "analyze", id |-> HashId("analyze"), fields |-> fields,
                                      stored |-> FALSE])
            /\ wRead' = NoOut
            /\ UNCHANGED wCol
    /\ UNCHANGED notMeta

\* import_from_csv, one row
WriteImportCsv ==
    /\ Len(wLog) < MaxWrites
    /\ \E fields \in FieldPool :
         LET metadata == [filename |-> "dataset/row.txt", category |-> "row", dataset_index |-> 0,
                          skills |-> MetaStr(JoinWith(",", fields.skills)),
                          titles |-> MetaStr(JoinWith(",", fields.titles)),
                          years |-> fields.years_exp]
         IN  Written("import_from_csv", fields, metadata)
    /\ UNCHANGED notMeta

\* index_individual_resumes, one file
WriteIndividual ==
    /\ Len(wLog) < MaxWrites
    /\ \E fields \in FieldPool :
         LET metadata == [filename |-> "cv.pdf", source |-> "individual_file", indexed_at |-> "now",
                          skills |-> MetaStr(JoinWith(",", fields.skills)),
                          titles |-> MetaStr(JoinWith(",", fields.titles)),
                          years_exp |-> fields.years_exp]
         IN  Written("index_individual_resumes", fields, metadata)
    /\ UNCHANGED notMeta

\* index_csv_resumes, one row: the skills of the text and of the skills
\* column, each once
WriteCsvRow ==
    /\ Len(wLog) < MaxWrites
    /\ \E fields \in FieldPool, csv_skills \in CsvSkillLists :
         \E all_skills \in ListsOfSet(fields.skills \o csv_skills) :
            LET merged == [fields EXCEPT !.skills = all_skills]
                metadata == [filename |-> "csv_row_0", source |-> "csv_file", csv_file |-> "resume_data.csv", row_index |-> 0,
                             indexed_at |-> "now",
                             skills |-> MetaStr(JoinWith(",", SubSeq(merged.skills, 1, Min(SkillCap, Len(merged.skills))))),
                             titles |-> MetaStr(JoinWith(",", merged.titles)),
                             years_exp |-> merged.years_exp]
            IN  Written("index_csv_resumes", merged, metadata)
    /\ UNCHANGED notMeta

\* a hit of query_similar made into a candidate: app.py 69-81 (172-190,
\* 251-270, 358-375, 411-424 and rag_engine.py 34-46 do the same). A list has
\* no split
ReadCandidate ==
    /\ \E rec \in wCol :
         LET skills_str == MetaGet(rec.metadata, "skills", MetaStr(<< >>))
             titles_str == MetaGet(rec.metadata, "titles", MetaStr(<< >>))
             NoSplit(value) == value.t = "list" /\ value.items # << >>
         IN  wRead' =
                IF NoSplit(skills_str) \/ NoSplit(titles_str)
                THEN [id |-> rec.id, raised |-> "AttributeError",
                      fields |-> [skills |-> << >>, titles |-> << >>, years_exp |-> 0]]
                ELSE [id |-> rec.id, raised |-> "",
                      fields |-> [skills |-> ListOfField(skills_str),
                                  titles |-> ListOfField(titles_str),
                                  years_exp |-> MetaGet(rec.metadata, "years", 0)]]
    /\ UNCHANGED <<wCol, wLog>>
    /\ UNCHANGED notMeta

NextMeta ==
    \/ WriteUpload
    \/ WriteAnalyze
    \/ WriteImportCsv
    \/ WriteIndividual
    \/ WriteCsvRow
    \/ ReadCandidate

SpecMeta == InitMeta /\ [][NextMeta]_vars

\* the fields extracted at the last write of the record
LastWritten(id) ==
    LET at == {n \in 1..Len(wLog) : wLog[n].id = id /\ wLog[n].stored}
    IN  wLog[CHOOSE n \in at : \A m \in at : m <= n].fields

\* C30: for every record written by /api/upload, /api/analyze,
\* import_from_csv, index_individual_resumes or index_csv_resumes, the
\* candidate fields a read path makes of its metadata (the skills list, the
\* titles list, the years) are those extracted when it was written, and the
\* years are stored under the key the read paths look up.
C30_MetadataRoundTrip ==
    /\ \A rec \in wCol : "years" \in DOMAIN rec.metadata
    /\ wRead # NoOut =>
          /\ wRead.raised = ""
          /\ wRead.fields = LastWritten(wRead.id)

====
